---- MODULE Spec2Model ----
(***************************************************************************)
(* llm-async: the retry policy (utils/retry.py), the unary and streaming   *)
(* request executors and the SSE frame decoder (utils/http.py).            *)
(*                                                                         *)
(* One call is modelled at a time: post_json (call = "unary") or           *)
(* stream_json (call = "stream").  The HTTP transport is the environment:  *)
(* every client.post picks its outcome (a response or a raised exception), *)
(* and every read of response.read_chunks() picks how many of the          *)
(* response's bytes the next fragment carries, or raises.                  *)
(***************************************************************************)
EXTENDS Integers, Sequences, FiniteSets, TLC

VARIABLES
    cfg,        \* the RetryConfig of the call, after __post_init__
    call,       \* "unary" (post_json) or "stream" (stream_json)
    wire,       \* the bytes the server sends on a response with status < 400
    pc,         \* "attempt", "sleep", "reading", "done", "raised"
    attempt,    \* the loop variable of `for attempt in range(max_attempts)`
    posts,      \* number of client.post calls issued
    history,    \* the outcome of each client.post, in order
    result,     \* post_json: the value returned
    error,      \* the exception raised to the caller
    pos,        \* number of bytes of wire already delivered by read_chunks
    buffer,     \* stream_json: the text buffer
    text,       \* every decoded chunk so far, concatenated
    seen,       \* every `data:` payload extracted so far, in order
    yielded,    \* every event yielded to the consumer so far, in order
    halted,     \* "" while running; "sentinel", "eof" once the generator returned
    delay,      \* the argument of the asyncio.sleep in progress, in ticks; 0 when none
    retries,    \* whether on_retry was given, its calls and the sleeps begun, in order
    client,     \* the `client` argument: "HTTPClient" or "None"
    provider,   \* the provider whose acomplete() made the call; "None" for a bare call
    response,   \* the Response acomplete() returned; NoResponse before
    fed,        \* the events stream_json handed to the provider's _gen, in order
    chunks,     \* the StreamChunks the stream_generator yielded, in order
    contents,   \* the strings Response.stream_content() yielded, in order
    pass,       \* number of iterations of the stream started by the consumer
    response_schema, \* the response_schema keyword _single_complete receives:
                \* "absent" when the caller passes none, else its value
    parsing,    \* a reply body and the canonical message parsed from it
    request,    \* the messages acomplete() received and what the request carries
    tasks,      \* concurrent calls on one provider: the locals of each call
    tool,       \* one execute_tool call: the ToolCall, the table, what was invoked
    loop,       \* one _auto_execute_tools call: its locals and the requests it sent
    bus         \* a LocalQueueBackend, its subscribers and what they received

\* The provider layer above the executors, and the client handle.
layerVars == <<client, provider, response, fed, chunks, contents, pass, response_schema, parsing,
               request>>

\* The parts of the library beside a single executor call.
libVars == <<tasks, tool, loop, bus>>

\* The state of the single executor call.
execVars == <<cfg, call, wire, pc, attempt, posts, history, result, error,
              pos, buffer, text, seen, yielded, halted, delay, retries>>

vars == <<cfg, call, wire, pc, attempt, posts, history, result, error,
          pos, buffer, text, seen, yielded, halted, delay, retries, layerVars, libVars>>

(***************************************************************************)
(* Bounds                                                                  *)
(***************************************************************************)
MaxAttempts == 3
MaxLines == 2
\* random.random() takes the values k / JitterSteps, k in 0 .. JitterSteps - 1.
JitterSteps == 2
MaxChunks == 3
MaxPasses == 2

(***************************************************************************)
(* Exceptions and transport outcomes                                       *)
(***************************************************************************)
\* Exception classes.  asyncio.CancelledError derives from BaseException, every
\* other class from Exception.
Kinds == {"Exception", "ConnectionError", "TimeoutError", "ValueError", "CancelledError"}

\* issubclass(kind, Exception)
IsException(kind) == kind # "CancelledError"

DEFAULT_RETRY_EXCEPTIONS == {"TimeoutError", "ConnectionError"}

DefaultRetryStatus == {429, 500, 502, 503, 504}

\* str(status_code), as the f-string "HTTP {status_code}: {text}" renders it.
StatusStr(s) ==
    CASE s = 200 -> "200" [] s = 400 -> "400" [] s = 429 -> "429"
      [] s = 500 -> "500" [] s = 502 -> "502" [] s = 503 -> "503"
      [] s = 504 -> "504"

Statuses == {200, 400, 429, 500, 502, 503, 504}

\* int(digits), for the digit strings that occur.
IntOf(d) == CHOOSE s \in Statuses : StatusStr(s) = d

DigitStrings == {StatusStr(s) : s \in Statuses}

NoException == [kind |-> "None", msg |-> <<>>]

\* HttpError whose message leaves out the response text.
HttpErrorStatusOnly(status, txt) ==
    [kind |-> "Exception", msg |-> <<"HTTP", StatusStr(status)>>]

\* Exception(f"HTTP {response.status_code}: {text}"); msg is args[0], in words.
HttpError(status, txt) ==
    [kind |-> "Exception", msg |-> <<"HTTP", StatusStr(status), ":", txt>>]

Resp(s, b) == [type |-> "response", status |-> s, body |-> b, kind |-> "", msg |-> <<>>]
Raise(k, m) == [type |-> "raise", status |-> 0, body |-> "", kind |-> k, msg |-> m]

Bodies == {"body1", "body2"}

\* What one client.post can do.
Outcomes ==
    {Resp(200, b) : b \in Bodies}
    \cup {Resp(400, "Bad Request"), Resp(500, "Internal Server Error")}
    \cup {Raise("ConnectionError", <<"Connection", "failed">>),
          Raise("ValueError", <<"bad", "value">>),
          Raise("ValueError", <<"upstream", "said", "HTTP", "500">>)}

\* What read_chunks can raise.
ReadErrors ==
    {[kind |-> "ConnectionError", msg |-> <<"Stream", "interrupted">>],
     [kind |-> "Exception", msg |-> <<"Connection", "lost">>]}

(***************************************************************************)
(* RetryConfig                                                             *)
(***************************************************************************)
\* RetryConfig(...).__post_init__: an empty retry_on_exceptions gets the defaults.
RetryConfigOf(n, base, max, factor, statuses, classes, jit) ==
    [max_attempts |-> n,
     base_delay |-> base,
     max_delay |-> max,
     backoff_factor |-> factor,
     retry_on_status |-> statuses,
     retry_on_exceptions |-> IF classes = {} THEN DEFAULT_RETRY_EXCEPTIONS ELSE classes,
     jitter |-> jit]

\* The delay fields at their defaults: base_delay 1.0, max_delay 60.0, backoff_factor 2.0,
\* jitter on.
RetryConfig(n, statuses, classes) == RetryConfigOf(n, 1, 60, 2, statuses, classes, TRUE)

Configs ==
    {RetryConfig(n, st, ex) :
        n \in 1..MaxAttempts,
        st \in {DefaultRetryStatus, {}, {400}},
        ex \in {{}, {"ValueError"}, {"Exception"}}}

\* isinstance that takes every class for a subclass of Exception.
isinstance_flat(kind, classes) == kind \in classes \/ "Exception" \in classes

\* isinstance(e, classes): e's class or a base class of it is listed.
isinstance(kind, classes) ==
    kind \in classes \/ ("Exception" \in classes /\ IsException(kind))

\* re.search(r"HTTP (\d+)", str(e.args[0])): the status of the leftmost match, 0 if none.
MatchAts(msg) ==
    {i \in 1..(Len(msg) - 1) : msg[i] = "HTTP" /\ msg[i + 1] \in DigitStrings}

re_search_status(msg) ==
    IF MatchAts(msg) = {} THEN 0
    ELSE LET i == CHOOSE j \in MatchAts(msg) : \A k \in MatchAts(msg) : j <= k
         IN  IntOf(msg[i + 1])

\* should_retry with the membership test on retry_on_status left out.
should_retry_any_http(c, e) ==
    IF isinstance(e.kind, c.retry_on_exceptions) THEN TRUE
    ELSE Len(e.msg) > 0 /\ re_search_status(e.msg) # 0

\* should_retry without the status check of an HTTP failure.
should_retry_kind_only(c, e) == isinstance(e.kind, c.retry_on_exceptions)

\* retry_http.wrapper: should_retry for exception e.
should_retry(c, e) ==
    IF isinstance(e.kind, c.retry_on_exceptions) THEN TRUE
    ELSE IF Len(e.msg) > 0 /\ re_search_status(e.msg) # 0
         THEN re_search_status(e.msg) \in c.retry_on_status
         ELSE FALSE

\* The last-attempt test off by one.
last_attempt_off_by_one(c, a) == a = c.max_attempts

\* `attempt == _config.max_attempts - 1`
last_attempt(c, a) == a = c.max_attempts - 1

\* stream_json: the exception classes its `except retry_exceptions` clause catches.
retry_exceptions(c) ==
    IF c.retry_on_exceptions # {} THEN c.retry_on_exceptions ELSE DEFAULT_RETRY_EXCEPTIONS

(***************************************************************************)
(* The backoff delay.  Delays are counted in ticks of 1 / (2 * JitterSteps) *)
(* second, so that every jittered delay is a whole number of ticks.        *)
(***************************************************************************)
Tick == 2 * JitterSteps

RECURSIVE Pow(_, _)
Pow(b, e) == IF e = 0 THEN 1 ELSE b * Pow(b, e - 1)

Min(a, b) == IF a <= b THEN a ELSE b

\* backoff_delays without the cap at max_delay.
backoff_delays_uncapped(c, a) ==
    LET d == c.base_delay * Pow(c.backoff_factor, a) IN
    IF c.jitter THEN {d * (JitterSteps + k) : k \in 0..(JitterSteps - 1)}
    ELSE {d * Tick}

\* backoff_delays with the jitter factor random.random() in place of
\* 0.5 + random.random() * 0.5.
backoff_delays_full_jitter(c, a) ==
    LET d == Min(c.base_delay * Pow(c.backoff_factor, a), c.max_delay) IN
    IF c.jitter THEN {d * 2 * k : k \in 0..(JitterSteps - 1)}
    ELSE {d * Tick}

\* delay = base_delay * backoff_factor ** attempt; delay = min(delay, max_delay);
\* if jitter: delay = delay * (0.5 + random.random() * 0.5).  The delays that
\* can result, in ticks.
backoff_delays(c, a) ==
    LET d == Min(c.base_delay * Pow(c.backoff_factor, a), c.max_delay) IN
    IF c.jitter THEN {d * (JitterSteps + k) : k \in 0..(JitterSteps - 1)}
    ELSE {d * Tick}

(***************************************************************************)
(* The bookkeeping of a retry loop: the on_retry calls and the sleeps.     *)
(***************************************************************************)
\* No retry yet; given tells whether the decorator received an on_retry.
Retries(given) == [on_retry |-> given, calls |-> <<>>, sleeps |-> <<>>]

\* on_retry called with the 0-based loop variable.
on_retry_index_zero_based(a) == a

\* The first argument of on_retry(attempt + 1, e).
on_retry_index(a) == a + 1

\* `if on_retry: on_retry(attempt + 1, e)`
called(r, a, e) ==
    IF r.on_retry
    THEN [r EXCEPT !.calls = Append(@, [attempt |-> on_retry_index(a), e |-> e])]
    ELSE r

\* `await asyncio.sleep(delay)` begins after n POSTs; announced is the number
\* of on_retry calls made by then.
slept(r, n) == [r EXCEPT !.sleeps = Append(@, [after |-> n, announced |-> Len(r.calls)])]

(***************************************************************************)
(* The unary executor: retry_http(retry_config)(_post_json_core)           *)
(***************************************************************************)
\* _post_json_core on outcome o: the exception it raises (NoException if it returns).
post_json_core_raises(o) ==
    IF o.type = "raise" THEN [kind |-> o.kind, msg |-> o.msg]
    ELSE IF o.status >= 400 THEN HttpError(o.status, o.body)
    ELSE NoException

UnaryPost(o) ==
    /\ call = "unary"
    /\ pc = "attempt"
    /\ posts' = posts + 1
    /\ history' = Append(history, o)
    /\ LET e == post_json_core_raises(o) IN
         IF e = NoException
         THEN /\ pc' = "done"
              /\ result' = o.body
              /\ error' = error
              /\ delay' = 0
         ELSE IF ~IsException(e.kind) \/ ~should_retry(cfg, e) \/ last_attempt(cfg, attempt)
         THEN /\ pc' = "raised"
              /\ error' = e
              /\ result' = result
              /\ delay' = 0
         ELSE /\ pc' = "sleep"
              /\ error' = e
              /\ result' = result
              /\ delay' \in backoff_delays(cfg, attempt)
    /\ retries' = IF pc' = "sleep" THEN slept(called(retries, attempt, error'), posts')
                  ELSE retries
    /\ UNCHANGED <<cfg, call, wire, attempt, pos, buffer, text, seen, yielded, halted>>
    /\ UNCHANGED layerVars
    /\ UNCHANGED libVars

\* asyncio.sleep(delay) returns and the for loop takes its next value; when the
\* range is used up the wrapper raises last_exception (the code never sleeps
\* after its last attempt, so this branch is not taken).
Sleep ==
    /\ pc = "sleep"
    /\ attempt' = attempt + 1
    /\ IF attempt + 1 < cfg.max_attempts
       THEN pc' = "attempt" /\ error' = NoException
       ELSE pc' = "raised" /\ error' = error
    /\ delay' = 0
    /\ UNCHANGED <<retries, cfg, call, wire, posts, history, result,
                   pos, buffer, text, seen, yielded, halted>>
    /\ UNCHANGED layerVars
    /\ UNCHANGED libVars

\* The task is cancelled while it awaits asyncio.sleep(delay): the await raises
\* CancelledError.  In retry_http and in stream_json's `except retry_exceptions`
\* clause the sleep stands inside an except block, in stream_json's status
\* branch inside the `try`, whose except clauses then see the CancelledError.
CancelledError == [kind |-> "CancelledError", msg |-> <<>>]

CancelSleep ==
    /\ pc = "sleep"
    /\ error' = CancelledError
    /\ LET last == history[Len(history)]
           in_try == /\ call = "stream"
                     /\ last.type = "response"
                     /\ last.status \in cfg.retry_on_status
       IN  IF in_try /\ isinstance("CancelledError", retry_exceptions(cfg))
                     /\ ~last_attempt(cfg, attempt)
           THEN /\ pc' = "sleep"
                /\ delay' \in backoff_delays(cfg, attempt)
                /\ retries' = slept(retries, posts)
           ELSE /\ pc' = "raised"
                /\ delay' = 0
                /\ retries' = retries
    /\ UNCHANGED <<cfg, call, wire, attempt, posts, history, result,
                   pos, buffer, text, seen, yielded, halted>>
    /\ UNCHANGED layerVars
    /\ UNCHANGED libVars

(***************************************************************************)
(* The streaming executor: connection phase of stream_json                 *)
(***************************************************************************)
\* stream_attempt without the retry on a status of retry_on_status.
stream_attempt_no_status(c, a, o) ==
    IF o.type = "response" /\ o.status < 400 THEN "break"
    ELSE IF isinstance(post_json_core_raises(o).kind, retry_exceptions(c))
    THEN IF last_attempt(c, a) THEN "raise" ELSE "retry"
    ELSE "raise"

\* stream_attempt whose status branch forgets that the attempts can be used up.
stream_attempt_no_bound(c, a, o) ==
    IF o.type = "response" /\ o.status < 400 THEN "break"
    ELSE IF o.type = "response" /\ o.status \in c.retry_on_status
    THEN "retry"
    ELSE IF isinstance(post_json_core_raises(o).kind, retry_exceptions(c))
    THEN IF last_attempt(c, a) THEN "raise" ELSE "retry"
    ELSE "raise"

\* After one client.post with outcome o: "break", "retry" or "raise".
stream_attempt(c, a, o) ==
    IF o.type = "response" /\ o.status < 400 THEN "break"
    ELSE IF o.type = "response" /\ o.status \in c.retry_on_status /\ a < c.max_attempts - 1
    THEN "retry"
    ELSE IF isinstance(post_json_core_raises(o).kind, retry_exceptions(c))
    THEN IF last_attempt(c, a) THEN "raise" ELSE "retry"
    ELSE "raise"

\* The dict {} as stream_json yields it.
EmptyDict == <<"{", "}">>

\* NullClient that returns without yielding.
NullClientNoYield ==
    /\ call = "stream"
    /\ client = "None"
    /\ pc = "attempt"
    /\ pc' = "done"
    /\ halted' = "no client"
    /\ UNCHANGED <<retries, cfg, call, wire, attempt, posts, history, result, error,
                   pos, buffer, text, seen, yielded, delay>>
    /\ UNCHANGED layerVars
    /\ UNCHANGED libVars

\* `if client is None: yield {}; return`
NullClient ==
    /\ call = "stream"
    /\ client = "None"
    /\ pc = "attempt"
    /\ yielded' = <<EmptyDict>>
    /\ pc' = "done"
    /\ halted' = "no client"
    /\ UNCHANGED <<retries, cfg, call, wire, attempt, posts, history, result, error,
                   pos, buffer, text, seen, delay>>
    /\ UNCHANGED layerVars
    /\ UNCHANGED libVars

\* A generator whose body runs as soon as it is created.
generator_started_eagerly(p, n) == TRUE

\* The body of a provider's `async def _gen()` runs stream_json only once the
\* generator is iterated (n: iterations started); a bare stream_json call
\* (p = "None") is iterated by its caller.
generator_started(p, n) == p = "None" \/ n >= 1

StreamPost(o) ==
    /\ call = "stream"
    /\ client # "None"
    /\ generator_started(provider, pass)
    /\ pc = "attempt"
    /\ posts' = posts + 1
    /\ history' = Append(history, o)
    /\ LET e == post_json_core_raises(o)
           step == stream_attempt(cfg, attempt, o)
       IN  /\ pc' = CASE step = "break" -> "reading"
                      [] step = "retry" -> "sleep"
                      [] step = "raise" -> "raised"
           /\ error' = IF step = "break" THEN error ELSE e
           /\ IF step = "retry"
              THEN delay' \in backoff_delays(cfg, attempt)
              ELSE delay' = 0
           /\ retries' = IF step = "retry" THEN slept(retries, posts') ELSE retries
    /\ UNCHANGED <<cfg, call, wire, attempt, result, pos, buffer, text, seen, yielded, halted>>
    /\ UNCHANGED layerVars
    /\ UNCHANGED libVars

(***************************************************************************)
(* Bytes and text                                                          *)
(***************************************************************************)
LF == "\n"
QUOTE == "\""

\* Bytes are written as one-character strings; "C3" "A9" are the two bytes of
\* the UTF-8 encoding of U+00E9.
LineBreaks == {LF, "\r"}
Whitespace == {" ", "\t", LF, "\r"}

\* bytes.decode("utf-8") succeeds: no truncated or stray multi-byte sequence.
Utf8Valid(raw) ==
    \A i \in 1..Len(raw) :
        /\ raw[i] = "C3" => (i < Len(raw) /\ raw[i + 1] = "A9")
        /\ raw[i] = "A9" => (i > 1 /\ raw[i - 1] = "C3")

RECURSIVE Utf8Decode(_)
Utf8Decode(raw) ==
    IF raw = <<>> THEN <<>>
    ELSE IF Head(raw) = "C3" THEN <<"U+00E9">> \o Utf8Decode(Tail(Tail(raw)))
    ELSE <<Head(raw)>> \o Utf8Decode(Tail(raw))

\* bytes.decode("latin-1"): one character per byte.
Latin1Decode(raw) ==
    [i \in 1..Len(raw) |->
        CASE raw[i] = "C3" -> "U+00C3"
          [] raw[i] = "A9" -> "U+00A9"
          [] OTHER -> raw[i]]

\* stream_json: raw_chunk.decode("utf-8"), on failure raw_chunk.decode("latin-1").
decode_chunk(raw) == IF Utf8Valid(raw) THEN Utf8Decode(raw) ELSE Latin1Decode(raw)

\* str.strip()
strip(s) ==
    LET keep == {i \in 1..Len(s) : s[i] \notin Whitespace} IN
    IF keep = {} THEN <<>>
    ELSE LET lo == CHOOSE i \in keep : \A j \in keep : i <= j
             hi == CHOOSE i \in keep : \A j \in keep : j <= i
         IN  SubSeq(s, lo, hi)

\* str.splitlines()
RECURSIVE splitlines(_)
splitlines(s) ==
    IF s = <<>> THEN <<>>
    ELSE LET brk == {i \in 1..Len(s) : s[i] \in LineBreaks} IN
         IF brk = {} THEN <<s>>
         ELSE LET i == CHOOSE k \in brk : \A j \in brk : k <= j
                  after == IF s[i] = "\r" /\ i < Len(s) /\ s[i + 1] = LF THEN i + 2 ELSE i + 1
              IN  <<SubSeq(s, 1, i - 1)>> \o splitlines(SubSeq(s, after, Len(s)))

startswith(s, p) == Len(s) >= Len(p) /\ SubSeq(s, 1, Len(p)) = p

DataPrefix == <<"d", "a", "t", "a", ":">>
DONE == <<"[", "D", "O", "N", "E", "]">>

(***************************************************************************)
(* json.loads, for the JSON texts the alphabet can spell: strings, arrays  *)
(* and objects of at most one member, NaN                                  *)
(***************************************************************************)
JsonWs == {" ", "\t", LF, "\r"}

\* The first index >= i of s that holds no JSON whitespace (Len(s) + 1 if none).
SkipWs(s, i) ==
    LET rest == {j \in i..Len(s) : s[j] \notin JsonWs} IN
    IF rest = {} THEN Len(s) + 1 ELSE CHOOSE j \in rest : \A k \in rest : j <= k

\* s[i] opens a string: the index after its closing quote, 0 if unterminated.
ParseString(s, i) ==
    LET close == {j \in (i + 1)..Len(s) : s[j] = QUOTE} IN
    IF close = {} \/ \E j \in (i + 1)..Len(s) : s[j] \in LineBreaks \cup {"\t"}
    THEN 0
    ELSE 1 + CHOOSE j \in close : \A k \in close : j <= k

\* The index after the JSON value that starts at s[i], 0 if there is none.
RECURSIVE ParseValue(_, _)
ParseValue(s, i) ==
    IF i > Len(s) THEN 0
    ELSE IF s[i] = QUOTE THEN ParseString(s, i)
    ELSE IF s[i] = "[" THEN
        LET k == SkipWs(s, i + 1) IN
        IF k <= Len(s) /\ s[k] = "]" THEN k + 1
        ELSE LET e == ParseValue(s, k) IN
             IF e = 0 THEN 0
             ELSE LET m == SkipWs(s, e) IN
                  IF m <= Len(s) /\ s[m] = "]" THEN m + 1 ELSE 0
    ELSE IF s[i] = "{" THEN
        LET k == SkipWs(s, i + 1) IN
        IF k <= Len(s) /\ s[k] = "}" THEN k + 1
        ELSE IF k > Len(s) \/ s[k] # QUOTE THEN 0
        ELSE LET ke == ParseString(s, k) IN
             IF ke = 0 THEN 0
             ELSE LET c == SkipWs(s, ke) IN
                  IF c > Len(s) \/ s[c] # ":" THEN 0
                  ELSE LET e == ParseValue(s, SkipWs(s, c + 1)) IN
                       IF e = 0 THEN 0
                       ELSE LET m == SkipWs(s, e) IN
                            IF m <= Len(s) /\ s[m] = "}" THEN m + 1 ELSE 0
    ELSE IF startswith(SubSeq(s, i, Len(s)), <<"N", "a", "N">>) THEN i + 3
    ELSE 0

\* json.loads(s) does not raise JSONDecodeError.
IsJSON(s) ==
    LET b == SkipWs(s, 1)
        e == ParseValue(s, b)
    IN  e # 0 /\ SkipWs(s, e) = Len(s) + 1

\* json.loads(s): the value, written without the whitespace between tokens.
RECURSIVE JsonTokens(_, _)
JsonTokens(s, inString) ==
    IF s = <<>> THEN <<>>
    ELSE IF Head(s) = QUOTE THEN <<QUOTE>> \o JsonTokens(Tail(s), ~inString)
    ELSE IF ~inString /\ Head(s) \in JsonWs THEN JsonTokens(Tail(s), inString)
    ELSE <<Head(s)>> \o JsonTokens(Tail(s), inString)

json_loads(s) == JsonTokens(s, FALSE)

(***************************************************************************)
(* The SSE frame decoder: the body of stream_json's read loop              *)
(***************************************************************************)
\* Decoder progress: payloads extracted, events yielded, sentinel met.
Progress(sn, out, done) == [seen |-> sn, out |-> out, done |-> done]

\* process_lines that skips the sentinel line instead of returning.
RECURSIVE process_lines_past_done(_, _)
process_lines_past_done(lines, p) ==
    IF lines = <<>> THEN p
    ELSE LET line == strip(Head(lines)) IN
         IF line = <<>> \/ ~startswith(line, DataPrefix)
         THEN process_lines_past_done(Tail(lines), p)
         ELSE LET data == strip(SubSeq(line, Len(DataPrefix) + 1, Len(line)))
                  sn == Append(p.seen, data)
              IN  IF data # DONE /\ IsJSON(data)
                  THEN process_lines_past_done(Tail(lines),
                           Progress(sn, Append(p.out, json_loads(data)), FALSE))
                  ELSE process_lines_past_done(Tail(lines), Progress(sn, p.out, FALSE))

\* process_lines that gives up the rest of the event at a payload that is not JSON.
RECURSIVE process_lines_abort_bad(_, _)
process_lines_abort_bad(lines, p) ==
    IF lines = <<>> \/ p.done THEN p
    ELSE LET line == strip(Head(lines)) IN
         IF line = <<>> \/ ~startswith(line, DataPrefix)
         THEN process_lines_abort_bad(Tail(lines), p)
         ELSE LET data == strip(SubSeq(line, Len(DataPrefix) + 1, Len(line)))
                  sn == Append(p.seen, data)
              IN  IF data = DONE THEN Progress(sn, p.out, TRUE)
                  ELSE IF IsJSON(data)
                  THEN process_lines_abort_bad(Tail(lines),
                           Progress(sn, Append(p.out, json_loads(data)), FALSE))
                  ELSE Progress(sn, p.out, FALSE)

\* process_lines where a line that is not a `data:` line ends the event.
RECURSIVE process_lines_stop_other(_, _)
process_lines_stop_other(lines, p) ==
    IF lines = <<>> \/ p.done THEN p
    ELSE LET line == strip(Head(lines)) IN
         IF line = <<>> THEN process_lines_stop_other(Tail(lines), p)
         ELSE IF ~startswith(line, DataPrefix) THEN p
         ELSE LET data == strip(SubSeq(line, Len(DataPrefix) + 1, Len(line)))
                  sn == Append(p.seen, data)
              IN  IF data = DONE THEN Progress(sn, p.out, TRUE)
                  ELSE IF IsJSON(data)
                  THEN process_lines_stop_other(Tail(lines),
                           Progress(sn, Append(p.out, json_loads(data)), FALSE))
                  ELSE process_lines_stop_other(Tail(lines), Progress(sn, p.out, FALSE))

\* `for line in event.splitlines(): ...` from progress p on.
RECURSIVE process_lines(_, _)
process_lines(lines, p) ==
    IF lines = <<>> \/ p.done THEN p
    ELSE LET line == strip(Head(lines)) IN
         IF line = <<>> \/ ~startswith(line, DataPrefix)
         THEN process_lines(Tail(lines), p)
         ELSE LET data == strip(SubSeq(line, Len(DataPrefix) + 1, Len(line)))
                  sn == Append(p.seen, data)
              IN  IF data = DONE THEN Progress(sn, p.out, TRUE)
                  ELSE IF IsJSON(data)
                  THEN process_lines(Tail(lines), Progress(sn, Append(p.out, json_loads(data)), FALSE))
                  ELSE process_lines(Tail(lines), Progress(sn, p.out, FALSE))

\* Index of the first "\n\n" in buf, 0 if none.
find_sep(buf) ==
    LET at == {i \in 1..(Len(buf) - 1) : buf[i] = LF /\ buf[i + 1] = LF} IN
    IF at = {} THEN 0 ELSE CHOOSE i \in at : \A j \in at : i <= j

\* process_events with `if` for `while`: one event per chunk.
process_events_once(buf, p) ==
    LET i == find_sep(buf) IN
    IF i = 0 \/ p.done THEN [buffer |-> buf, p |-> p]
    ELSE [buffer |-> SubSeq(buf, i + 2, Len(buf)),
          p |-> process_lines(splitlines(SubSeq(buf, 1, i - 1)), p)]

\* `while "\n\n" in buffer: event, buffer = buffer.split("\n\n", 1); ...`
\* Gives the buffer left and the progress made.
RECURSIVE process_events(_, _)
process_events(buf, p) ==
    LET i == find_sep(buf) IN
    IF i = 0 \/ p.done THEN [buffer |-> buf, p |-> p]
    ELSE process_events(SubSeq(buf, i + 2, Len(buf)),
                        process_lines(splitlines(SubSeq(buf, 1, i - 1)), p))

\* read_chunks() hands over the next n bytes of the response.
ReadChunk(n) ==
    /\ pc = "reading"
    /\ n \in 0..(Len(wire) - pos)
    /\ pos' = pos + n
    /\ IF n = 0
       THEN UNCHANGED <<buffer, text, seen, yielded, halted, pc>>
       ELSE LET chunk_text == decode_chunk(SubSeq(wire, pos + 1, pos + n))
                r == process_events(buffer \o chunk_text, Progress(seen, yielded, FALSE))
            IN  /\ text' = text \o chunk_text
                /\ buffer' = r.buffer
                /\ seen' = r.p.seen
                /\ yielded' = r.p.out
                /\ halted' = IF r.p.done THEN "sentinel" ELSE halted
                /\ pc' = IF r.p.done THEN "done" ELSE pc
    /\ UNCHANGED <<retries, cfg, call, wire, attempt, posts, history, result, error, delay>>
    /\ UNCHANGED layerVars
    /\ UNCHANGED libVars

\* EndOfStream without the pass over the text left in the buffer.
EndOfStreamDropsRest ==
    /\ pc = "reading"
    /\ pos = Len(wire)
    /\ halted' = "eof"
    /\ pc' = "done"
    /\ UNCHANGED <<retries, cfg, call, wire, attempt, posts, history, result, error, pos, buffer, text,
                   seen, yielded, delay>>
    /\ UNCHANGED layerVars
    /\ UNCHANGED libVars

\* read_chunks() is exhausted: the remaining buffer is processed line by line.
EndOfStream ==
    /\ pc = "reading"
    /\ pos = Len(wire)
    /\ LET p == IF buffer # <<>>
                THEN process_lines(splitlines(buffer), Progress(seen, yielded, FALSE))
                ELSE Progress(seen, yielded, FALSE)
       IN  /\ seen' = p.seen
           /\ yielded' = p.out
           /\ halted' = IF p.done THEN "sentinel" ELSE "eof"
    /\ pc' = "done"
    /\ UNCHANGED <<retries, cfg, call, wire, attempt, posts, history, result, error, pos, buffer, text,
                   delay>>
    /\ UNCHANGED layerVars
    /\ UNCHANGED libVars

\* ReadRaise with the read loop inside the retry loop: a retryable error reconnects.
ReadRaiseReconnect(e) ==
    /\ pc = "reading"
    /\ error' = e
    /\ pc' = IF isinstance(e.kind, retry_exceptions(cfg)) /\ ~last_attempt(cfg, attempt)
             THEN "sleep" ELSE "raised"
    /\ UNCHANGED <<retries, cfg, call, wire, attempt, posts, history, result,
                   pos, buffer, text, seen, yielded, halted, delay>>
    /\ UNCHANGED layerVars
    /\ UNCHANGED libVars

\* read_chunks() raises e: the exception leaves stream_json as it is.
ReadRaise(e) ==
    /\ pc = "reading"
    /\ pc' = "raised"
    /\ error' = e
    /\ UNCHANGED <<retries, cfg, call, wire, attempt, posts, history, result,
                   pos, buffer, text, seen, yielded, halted, delay>>
    /\ UNCHANGED layerVars
    /\ UNCHANGED libVars

(***************************************************************************)
(* The provider layer: acomplete, Response, the stream_generator and       *)
(* Response.stream_content.  Python values are written as strings: "None", *)
(* "False", "True", "" (the empty str), and "MainResponse", "Message",     *)
(* "generator" for an object of that class.                                *)
(***************************************************************************)
\* acomplete has not returned.
NoResponse == [stream |-> "NoResponse", stream_generator |-> "None", main_response |-> "None"]

\* cls.name(): the class name without "Provider", lower-cased.
Providers == {"openai", "openrouter", "claude", "google", "openairesponses"}

\* bool(v)
truthy(v) == v \notin {"None", "False", ""}

\* Response._extract_main_response(provider_name), for a well-formed body.
extract_main_response(name) ==
    IF name \in {"openai", "openrouter", "claude", "google"} THEN "MainResponse"
    ELSE "ValueError"

\* Response(original, provider_name, stream, stream_generator, main_response)
\* after __post_init__.
ResponseOf(name, stream, gen, main) ==
    [stream |-> stream,
     stream_generator |-> gen,
     main_response |-> IF ~truthy(stream) THEN extract_main_response(name) ELSE main]

\* self._parse_response(response)
parse_response(p) == IF p = "openairesponses" THEN "Message" ELSE "MainResponse"

\* The Response a non-streaming _single_complete returns after post_json:
\* Response(response, name) or Response(response, name, main_response).
complete_response(p) ==
    IF p \in {"google", "openairesponses"}
    THEN ResponseOf(p, parse_response(p), "None", "None")
    ELSE ResponseOf(p, "False", "None", "None")

\* Response({}, name, stream=True, stream_generator=_gen())
stream_response(p) == ResponseOf(p, "True", "generator", "None")

\* NotImplementedError("Claude provider does not support structured outputs
\* with response_schema")
Unsupported ==
    [kind |-> "NotImplementedError",
     msg |-> <<"Claude provider does not support structured outputs with response_schema">>]

\* A provider that accepts every response_schema.
rejects_schema_never(p, schema) == FALSE

\* ClaudeProvider._single_complete: if "response_schema" in kwargs: raise ...
\* The other providers take the keyword as a parameter or pop it from the payload.
rejects_schema(p, schema) == p = "claude" /\ schema # "absent"

\* _ALLOWED_ROLES
ALLOWED_ROLES == {"system", "user", "assistant", "tool"}

\* A message as the caller gives it: a Message instance or a mapping.
Given(form, role) == [form |-> form, role |-> role]

\* The roles of the messages handed to _single_complete.
RolesOf(ms) == [i \in 1..Len(ms) |-> ms[i].role]

\* The messages acomplete received, the messages it hands to _single_complete
\* and the messages the payload carries, each by its role.
Request(ms) == [messages |-> ms, serialized |-> <<>>, payload |-> <<>>]

\* A request whose messages acomplete has accepted.
Accepted(ms) == [Request(ms) EXCEPT !.serialized = RolesOf(ms)]

InvalidRoleMapping == [kind |-> "ValueError", msg |-> <<"Invalid role provided in message">>]
InvalidRoleInstance == [kind |-> "ValueError", msg |-> <<"Invalid role on Message instance">>]

\* normalize_messages(messages): a mapping whose role is not allowed raises;
\* a Message instance is taken as it is.
normalize_messages_raises(ms) ==
    IF \E i \in 1..Len(ms) : ms[i].form = "mapping" /\ ms[i].role \notin ALLOWED_ROLES
    THEN InvalidRoleMapping
    ELSE NoException

\* validate_messages(normalized)
validate_messages_raises(ms) ==
    IF \E i \in 1..Len(ms) : ms[i].role \notin ALLOWED_ROLES
    THEN InvalidRoleInstance
    ELSE NoException

\* What acomplete of provider p raises on messages ms before _single_complete:
\* BaseProvider.acomplete normalizes and validates; OpenAIResponsesProvider
\* overrides it with _normalize_responses_messages, which copies the role.
acomplete_raises(p, ms) ==
    IF p = "openairesponses" THEN NoException
    ELSE IF normalize_messages_raises(ms) # NoException THEN normalize_messages_raises(ms)
    ELSE validate_messages_raises(ms)

\* OpenAIResponsesProvider._messages_to_input(messages): a single user message
\* gives its content; else the user and assistant messages are kept, and when
\* none is kept the messages themselves are the input.
messages_to_input(roles) ==
    IF roles = <<"user">> THEN roles
    ELSE LET responses_messages == SelectSeq(roles, LAMBDA r : r \in {"user", "assistant"})
         IN  IF responses_messages # <<>> THEN responses_messages ELSE roles

\* The messages of the payload _single_complete of provider p builds.
payload_messages(p, roles) == IF p = "openairesponses" THEN messages_to_input(roles) ELSE roles

\* acomplete up to its call of _single_complete.
AComplete ==
    /\ provider # "None"
    /\ pc = "acomplete"
    /\ LET e == acomplete_raises(provider, request.messages)
       IN  IF e # NoException
           THEN /\ pc' = "raised"
                /\ error' = e
                /\ request' = request
           ELSE /\ pc' = "call"
                /\ error' = error
                /\ request' = Accepted(request.messages)
    /\ UNCHANGED <<retries, cfg, call, wire, attempt, posts, history, result,
                   pos, buffer, text, seen, yielded, halted, delay>>
    /\ UNCHANGED <<parsing, response_schema, client, provider, response, fed, chunks, contents,
                   pass>>
    /\ UNCHANGED libVars

\* The head of _single_complete, up to the request being sent or the
\* streaming Response being built.
SingleComplete ==
    /\ provider # "None"
    /\ pc = "call"
    /\ IF rejects_schema(provider, response_schema)
       THEN pc' = "raised" /\ error' = Unsupported /\ request' = request
       ELSE /\ pc' = "attempt"
            /\ error' = error
            /\ request' = [request EXCEPT
                              !.payload = payload_messages(provider, request.serialized)]
    /\ UNCHANGED <<retries, cfg, call, wire, attempt, posts, history, result,
                   pos, buffer, text, seen, yielded, halted, delay>>
    /\ UNCHANGED <<parsing, response_schema, client, provider, response, fed, chunks, contents,
                   pass>>
    /\ UNCHANGED libVars

\* acomplete(stream=False): post_json has returned.
ReturnResponse ==
    /\ call = "unary"
    /\ provider # "None"
    /\ pc = "done"
    /\ response = NoResponse
    /\ response' = complete_response(provider)
    /\ UNCHANGED <<retries, cfg, call, wire, pc, attempt, posts, history, result, error,
                   pos, buffer, text, seen, yielded, halted, delay>>
    /\ UNCHANGED <<request, parsing, response_schema, client, provider, fed, chunks, contents, pass>>
    /\ UNCHANGED libVars

\* acomplete(stream=True): the Response is returned before anything is sent.
ReturnStream ==
    /\ call = "stream"
    /\ provider # "None"
    /\ pc = "attempt"
    /\ response = NoResponse
    /\ response' = stream_response(provider)
    /\ UNCHANGED <<retries, cfg, call, wire, pc, attempt, posts, history, result, error,
                   pos, buffer, text, seen, yielded, halted, delay>>
    /\ UNCHANGED <<request, parsing, response_schema, client, provider, fed, chunks, contents, pass>>
    /\ UNCHANGED libVars

\* Iterate with a stream_generator that starts afresh on every iteration.
IterateAfresh ==
    /\ truthy(response.stream)
    /\ response.stream_generator # "None"
    /\ pass = 0 \/ pc \in {"done", "raised"}
    /\ pass < MaxPasses
    /\ pass' = pass + 1
    /\ pc' = "attempt"
    /\ attempt' = 0
    /\ UNCHANGED <<retries, cfg, call, wire, posts, history, result, error,
                   pos, buffer, text, seen, yielded, halted, delay>>
    /\ UNCHANGED <<request, parsing, response_schema, client, provider, response, fed, chunks, contents>>
    /\ UNCHANGED libVars

\* The consumer starts `async for ... in response.stream_content()`
\* (`if self.stream and self.stream_generator:`): the first time the generator
\* starts, a later time - after it has finished or raised - it is exhausted
\* and the loop ends at once.
Iterate ==
    /\ truthy(response.stream)
    /\ response.stream_generator # "None"
    /\ pass = 0 \/ pc \in {"done", "raised"}
    /\ pass < MaxPasses
    /\ pass' = pass + 1
    /\ UNCHANGED <<retries, cfg, call, wire, pc, attempt, posts, history, result, error,
                   pos, buffer, text, seen, yielded, halted, delay>>
    /\ UNCHANGED <<request, parsing, response_schema, client, provider, response, fed, chunks, contents>>
    /\ UNCHANGED libVars

\* The events stream_json yields to a provider: a dict with or without the
\* provider's envelope (choices / candidates and parts / a type ending in
\* ".delta"), whose text field is absent, null or a str.
StreamEvents ==
    {[envelope |-> TRUE, delta |-> d] : d \in {"absent", "None", "", "Hel", "lo"}}
    \cup {[envelope |-> FALSE, delta |-> "absent"]}

NoChunk == [content |-> "NoChunk"]
StreamChunk(c) == [content |-> c]

\* parse_stream_chunk(chunk, provider)
parse_stream_chunk(ev, pp) ==
    CASE pp = "openai" ->
            IF ~ev.envelope THEN NoChunk
            ELSE StreamChunk(IF ev.delta = "absent" THEN "None" ELSE ev.delta)
      [] pp = "claude" ->
            StreamChunk(IF ev.delta = "absent" THEN "None" ELSE ev.delta)
      [] pp = "google" ->
            IF ~ev.envelope THEN NoChunk
            ELSE StreamChunk(IF ev.delta = "absent" THEN "" ELSE ev.delta)

\* OpenAIResponsesProvider._extract_stream_text(chunk)
extract_stream_text(ev) ==
    IF ev.envelope /\ ev.delta \notin {"absent", "None", ""} THEN ev.delta ELSE "None"

\* The parse_provider each provider hands to _stream_response.
parse_provider(p) == IF p = "openrouter" THEN "openai" ELSE p

\* gen_yields without the `sc.content is not None` test.
gen_yields_unfiltered(p, ev) ==
    IF p = "openairesponses"
    THEN IF truthy(extract_stream_text(ev)) THEN <<StreamChunk(extract_stream_text(ev))>> ELSE <<>>
    ELSE LET sc == parse_stream_chunk(ev, parse_provider(p)) IN
         IF sc # NoChunk THEN <<sc>> ELSE <<>>

\* One turn of _gen's `async for chunk in stream_json(...)`: the StreamChunks
\* yielded for event ev.
gen_yields(p, ev) ==
    IF p = "openairesponses"
    THEN IF truthy(extract_stream_text(ev)) THEN <<StreamChunk(extract_stream_text(ev))>> ELSE <<>>
    ELSE LET sc == parse_stream_chunk(ev, parse_provider(p)) IN
         IF sc # NoChunk /\ sc.content # "None" THEN <<sc>> ELSE <<>>

\* stream_content: `if chunk.content: yield chunk.content`
content_yields(cs) ==
    LET kept == SelectSeq(cs, LAMBDA c : truthy(c.content))
    IN  [i \in 1..Len(kept) |-> kept[i].content]

\* stream_json yields event ev; _gen and stream_content pass on what they pass on.
GenEvent(ev) ==
    /\ provider # "None"
    /\ pc = "reading"
    /\ Len(fed) < MaxChunks
    /\ fed' = Append(fed, ev)
    /\ chunks' = chunks \o gen_yields(provider, ev)
    /\ contents' = contents \o content_yields(gen_yields(provider, ev))
    /\ UNCHANGED <<retries, cfg, call, wire, pc, attempt, posts, history, result, error,
                   pos, buffer, text, seen, yielded, halted, delay>>
    /\ UNCHANGED <<request, parsing, response_schema, client, provider, response, pass>>
    /\ UNCHANGED libVars

\* stream_json returns, at the sentinel or at the end of the response.
GenEnd(how) ==
    /\ provider # "None"
    /\ pc = "reading"
    /\ pc' = "done"
    /\ halted' = how
    /\ UNCHANGED <<retries, cfg, call, wire, attempt, posts, history, result, error,
                   pos, buffer, text, seen, yielded, delay>>
    /\ UNCHANGED layerVars
    /\ UNCHANGED libVars

(***************************************************************************)
(* Byte streams served by the transport                                    *)
(***************************************************************************)
LineStr == DataPrefix \o <<" ", QUOTE, "C3", "A9", QUOTE>>
LineObj == DataPrefix \o <<" ", "{", "}">>
LineDone == DataPrefix \o <<" ">> \o DONE
LineBad == DataPrefix \o <<" ", "{", "x", "}">>
LineComment == <<":", "x">>

Lines == {LineStr, LineObj, LineDone, LineBad, LineComment}

Terminator == <<LF, LF>>

\* Streams of exactly k lines, consecutive lines parted by "\n" or "\n\n".
RECURSIVE LinesJoined(_)
LinesJoined(k) ==
    IF k = 1 THEN Lines
    ELSE {w \o sep \o l : w \in LinesJoined(k - 1), sep \in {<<LF>>, Terminator}, l \in Lines}

\* The streams of the repository's streaming tests, in this alphabet.
TestWires ==
    {LineStr \o Terminator \o LineBad \o Terminator \o LineStr \o Terminator
        \o LineDone \o Terminator,
     LineStr \o Terminator \o LineStr \o Terminator \o LineDone \o Terminator,
     LineObj \o Terminator \o LineStr}

Wires ==
    TestWires \cup
    {w \o fin : w \in UNION {LinesJoined(k) : k \in 1..MaxLines}, fin \in {<<>>, Terminator}}

\* The streams of the retry tests of stream_json.
RetryWires ==
    {LineObj \o Terminator \o LineDone \o Terminator,
     LineStr \o Terminator}

\* A call of executor k on client cl, made by provider p ("None": by the caller itself).
ExecFields(c, k, w, cl, p, at, schema) ==
    /\ cfg = c
    /\ call = k
    /\ wire = w
    /\ pc = at
    /\ response_schema = schema
    /\ attempt = 0
    /\ posts = 0
    /\ history = <<>>
    /\ result = "None"
    /\ error = NoException
    /\ pos = 0
    /\ buffer = <<>>
    /\ text = <<>>
    /\ seen = <<>>
    /\ yielded = <<>>
    /\ halted = ""
    /\ delay = 0
    /\ client = cl
    /\ provider = p
    /\ response = NoResponse
    /\ fed = <<>>
    /\ chunks = <<>>
    /\ contents = <<>>
    /\ pass = 0

\* A call at position `at` of its provider; no reply is being parsed.
ExecStateAt(c, k, w, cl, p, at, schema) ==
    /\ ExecFields(c, k, w, cl, p, at, schema)
    /\ retries = Retries(FALSE)
    /\ parsing = "none"
    /\ request = Accepted(IF p = "None" THEN <<>> ELSE <<Given("mapping", "user")>>)

\* An executor call about to issue its first POST.
ExecState(c, k, w, cl, p) == ExecStateAt(c, k, w, cl, p, "attempt", "absent")

\* No executor call is under way: the state while another part of the library runs.
ExecIdle(c) == ExecState(c, "none", <<>>, "HTTPClient", "None")

InitState(c, k, w, cl, p) ==
    /\ ExecState(c, k, w, cl, p)
    /\ tasks = <<>>
    /\ tool = "idle"
    /\ loop = "idle"
    /\ bus = "idle"

InitCall(c, k, w) == InitState(c, k, w, "HTTPClient", "None")

\* Any RetryConfig, either executor.
Init ==
    \E c \in Configs :
        \/ InitCall(c, "unary", <<>>)
        \/ \E w \in RetryWires : InitCall(c, "stream", w)
        \/ InitState(c, "stream", <<>>, "None", "None")

Next ==
    \/ \E o \in Outcomes : UnaryPost(o)
    \/ NullClient
    \/ \E o \in Outcomes : StreamPost(o)
    \/ Sleep
    \/ \E n \in 0..Len(wire) : ReadChunk(n)
    \/ \E e \in ReadErrors : ReadRaise(e)
    \/ EndOfStream

Spec == Init /\ [][Next]_vars

\* The decoder on every stream of Wires: stream_json with a single attempt.
InitSse == \E w \in Wires : InitCall(RetryConfig(1, DefaultRetryStatus, {}), "stream", w)

NextSse ==
    \/ \E o \in Outcomes : StreamPost(o)
    \/ \E n \in 0..Len(wire) : ReadChunk(n)
    \/ \E e \in ReadErrors : ReadRaise(e)
    \/ EndOfStream

SseSpec == InitSse /\ [][NextSse]_vars

\* The retry loops under every delay setting: base_delay, max_delay and
\* backoff_factor in seconds, with and without jitter.
DelayConfigs ==
    {RetryConfigOf(n, base, max, factor, DefaultRetryStatus, {}, jit) :
        n \in 1..MaxAttempts, base \in {1, 3}, max \in {0, 2, 5},
        factor \in {1, 2, 3}, jit \in BOOLEAN}

DelayOutcomes ==
    {Resp(200, "body1"), Resp(500, "Internal Server Error"),
     Raise("ConnectionError", <<"Connection", "failed">>)}

InitDelay ==
    \E c \in DelayConfigs :
        \/ InitCall(c, "unary", <<>>)
        \/ InitCall(c, "stream", LineStr \o Terminator)

NextDelay ==
    \/ \E o \in DelayOutcomes : UnaryPost(o)
    \/ \E o \in DelayOutcomes : StreamPost(o)
    \/ Sleep

DelaySpec == InitDelay /\ [][NextDelay]_vars

\* retry_http(config, on_retry)(_post_json_core) under every RetryConfig, with
\* and without an on_retry callback.
InitRetry ==
    \E c \in Configs, given \in BOOLEAN :
        /\ ExecFields(c, "unary", <<>>, "HTTPClient", "None", "attempt", "absent")
        /\ retries = Retries(given)
        /\ parsing = "none"
        /\ request = Accepted(<<>>)
        /\ tasks = <<>>
        /\ tool = "idle"
        /\ loop = "idle"
        /\ bus = "idle"

NextRetry ==
    \/ \E o \in Outcomes : UnaryPost(o)
    \/ Sleep

RetrySpec == InitRetry /\ [][NextRetry]_vars

\* RetryConfig.max_attempts: int = 3
DefaultMaxAttempts == 3

\* RetryConfig()
DefaultConfig == RetryConfig(DefaultMaxAttempts, DefaultRetryStatus, {})

\* The retry_config argument of post_json / stream_json: None, or a RetryConfig.
NoRetryConfig == [given |-> FALSE, config |-> DefaultConfig]

\* A None retry_config taken for "do not retry".
config_or_single_attempt(arg) ==
    IF arg.given THEN arg.config ELSE RetryConfig(1, DefaultRetryStatus, {})

\* `config or RetryConfig()` in retry_http, `retry_config or RetryConfig()`
\* in stream_json.
config_or_default(arg) == IF arg.given THEN arg.config ELSE DefaultConfig

\* What the transport of a provider built without retry_config can answer.
DefaultOutcomes ==
    {Resp(s, "error") : s \in DefaultRetryStatus}
    \cup {Raise(k, <<"Connection", "failed">>) : k \in DEFAULT_RETRY_EXCEPTIONS}
    \cup {Resp(200, "body1"), Resp(400, "Bad Request"), Raise("ValueError", <<"bad", "value">>)}

\* post_json and stream_json called with retry_config = None, as a provider
\* built with retry_config = None calls them.
InitDefault ==
    \/ InitCall(config_or_default(NoRetryConfig), "unary", <<>>)
    \/ InitCall(config_or_default(NoRetryConfig), "stream", LineStr \o Terminator)

NextDefault ==
    \/ \E o \in DefaultOutcomes : UnaryPost(o)
    \/ \E o \in DefaultOutcomes : StreamPost(o)
    \/ Sleep

DefaultSpec == InitDefault /\ [][NextDefault]_vars

\* acomplete of every provider, with stream = False and stream = True, under
\* the default RetryConfig; the consumer iterates the stream up to MaxPasses times.
\* The response_schema keyword as _single_complete can receive it: the value
\* BaseProvider.acomplete forwards (None when the caller gave no schema), or
\* no keyword when _single_complete is called without it.
SchemaArguments(p) == IF p = "claude" THEN {"absent", "None", "schema"} ELSE {"None"}

InitProvider ==
    \E p \in Providers, k \in {"unary", "stream"} :
        \E schema \in SchemaArguments(p) :
            /\ ExecStateAt(RetryConfig(MaxAttempts, DefaultRetryStatus, {}), k, <<>>,
                           "HTTPClient", p, "call", schema)
            /\ tasks = <<>>
            /\ tool = "idle"
            /\ loop = "idle"
            /\ bus = "idle"

NextProvider ==
    \/ SingleComplete
    \/ \E o \in DelayOutcomes : UnaryPost(o)
    \/ ReturnResponse
    \/ ReturnStream
    \/ Iterate
    \/ \E o \in DelayOutcomes : StreamPost(o)
    \/ Sleep
    \/ \E ev \in StreamEvents : GenEvent(ev)
    \/ \E how \in {"sentinel", "eof"} : GenEnd(how)
    \/ \E e \in ReadErrors : ReadRaise(e)

ProviderSpec == InitProvider /\ [][NextProvider]_vars

\* The calls of Init with a caller that may cancel the task at any await:
\* the POST in flight, the backoff sleep, the read of the next chunk.
Cancelled == Raise("CancelledError", <<>>)

NextCancel ==
    \/ \E o \in DelayOutcomes \cup {Cancelled} : UnaryPost(o)
    \/ NullClient
    \/ \E o \in DelayOutcomes \cup {Cancelled} : StreamPost(o)
    \/ Sleep
    \/ CancelSleep
    \/ \E n \in 0..Len(wire) : ReadChunk(n)
    \/ \E e \in ReadErrors \cup {CancelledError} : ReadRaise(e)
    \/ EndOfStream

CancelSpec == Init /\ [][NextCancel]_vars

(***************************************************************************)
(* Concurrent calls.  Two calls run on one provider, that is on one client *)
(* and one RetryConfig object (cfg); the event loop interleaves them at    *)
(* every await.  What a call keeps between two awaits are the locals of    *)
(* its coroutine (retry_http.wrapper: attempt, last_exception) or of its   *)
(* generator (stream_json: attempt, response, buffer).                     *)
(***************************************************************************)
TaskIds == {1, 2}

LineArr == DataPrefix \o <<" ", "[", "]">>

\* The bytes the server sends to each call.
TaskWire(i) == IF i = 1 THEN LineObj \o Terminator ELSE LineArr \o Terminator

\* The locals of a call of executor k at its start.
Task(k, w) ==
    [call |-> k, wire |-> w, pc |-> "attempt", attempt |-> 0, posts |-> 0,
     history |-> <<>>, error |-> NoException, result |-> "None",
     pos |-> 0, buffer |-> <<>>, text |-> <<>>, yielded |-> <<>>]

\* The locals after `await client.post(...)` gave outcome o: retry_http.wrapper
\* around _post_json_core, or the connection loop of stream_json.
task_post(c, t, o) ==
    LET e == post_json_core_raises(o)
        t1 == [t EXCEPT !.posts = @ + 1, !.history = Append(@, o)]
    IN  IF t.call = "unary"
        THEN IF e = NoException THEN [t1 EXCEPT !.pc = "done", !.result = o.body]
             ELSE IF ~IsException(e.kind) \/ ~should_retry(c, e) \/ last_attempt(c, t.attempt)
             THEN [t1 EXCEPT !.pc = "raised", !.error = e]
             ELSE [t1 EXCEPT !.pc = "sleep", !.error = e]
        ELSE LET step == stream_attempt(c, t.attempt, o) IN
             [t1 EXCEPT !.pc = CASE step = "break" -> "reading"
                                 [] step = "retry" -> "sleep"
                                 [] step = "raise" -> "raised",
                        !.error = IF step = "break" THEN @ ELSE e]

\* `await asyncio.sleep(delay)` returned: the for loop takes its next value.
task_wake(t) == [t EXCEPT !.attempt = @ + 1, !.pc = "attempt", !.error = NoException]

\* All calls append to the buffer of the first call.
buffer_owner_shared(i) == 1

\* `buffer = ""` is a local of the generator: call i reads and writes its own.
buffer_owner(i) == i

TaskPost(i, o) ==
    /\ tasks[i].pc = "attempt"
    /\ tasks' = [tasks EXCEPT ![i] = task_post(cfg, tasks[i], o)]
    /\ UNCHANGED <<execVars, layerVars, tool, loop, bus>>

TaskWake(i) ==
    /\ tasks[i].pc = "sleep"
    /\ tasks' = [tasks EXCEPT ![i] = task_wake(tasks[i])]
    /\ UNCHANGED <<execVars, layerVars, tool, loop, bus>>

\* read_chunks() of call i hands over the next n bytes of its response.
TaskRead(i, n) ==
    /\ tasks[i].pc = "reading"
    /\ n \in 1..(Len(tasks[i].wire) - tasks[i].pos)
    /\ LET t == tasks[i]
           b == buffer_owner(i)
           chunk_text == decode_chunk(SubSeq(t.wire, t.pos + 1, t.pos + n))
           r == process_events(tasks[b].buffer \o chunk_text, Progress(<<>>, t.yielded, FALSE))
       IN  tasks' = [tasks EXCEPT ![i].pos = @ + n,
                                  ![i].text = @ \o chunk_text,
                                  ![i].yielded = r.p.out,
                                  ![i].pc = IF r.p.done THEN "done" ELSE @,
                                  ![b].buffer = r.buffer]
    /\ UNCHANGED <<execVars, layerVars, tool, loop, bus>>

\* read_chunks() of call i is exhausted.
TaskEnd(i) ==
    /\ tasks[i].pc = "reading"
    /\ tasks[i].pos = Len(tasks[i].wire)
    /\ LET t == tasks[i]
           rest == tasks[buffer_owner(i)].buffer
           p == IF rest # <<>>
                THEN process_lines(splitlines(rest), Progress(<<>>, t.yielded, FALSE))
                ELSE Progress(<<>>, t.yielded, FALSE)
       IN  tasks' = [tasks EXCEPT ![i].yielded = p.out, ![i].pc = "done"]
    /\ UNCHANGED <<execVars, layerVars, tool, loop, bus>>

\* Two calls, each unary or streaming, on a RetryConfig of two attempts.
InitConc ==
    /\ ExecIdle(RetryConfig(2, DefaultRetryStatus, {}))
    /\ \E k1, k2 \in {"unary", "stream"} :
           tasks = <<Task(k1, TaskWire(1)), Task(k2, TaskWire(2))>>
    /\ tool = "idle"
    /\ loop = "idle"
    /\ bus = "idle"

NextConc ==
    \E i \in TaskIds :
        \/ \E o \in DelayOutcomes : TaskPost(i, o)
        \/ TaskWake(i)
        \/ \E n \in 1..Len(TaskWire(i)) : TaskRead(i, n)
        \/ TaskEnd(i)

ConcSpec == InitConc /\ [][NextConc]_vars

\* post_json and stream_json side by side under one RetryConfig with jitter
\* off, their transports giving the same outcome to the k-th POST of each.
PairConfigs ==
    {RetryConfigOf(n, 1, 60, 2, st, ex, FALSE) :
        n \in 1..MaxAttempts,
        st \in {DefaultRetryStatus, {}, {400}},
        ex \in {{}, {"ValueError"}, {"Exception"}}}

\* Both calls have their k-th POST answered.
PairPost(o) ==
    /\ \A i \in TaskIds : tasks[i].pc = "attempt"
    /\ tasks' = [i \in TaskIds |-> task_post(cfg, tasks[i], o)]
    /\ UNCHANGED <<execVars, layerVars, tool, loop, bus>>

\* Both calls return from their backoff sleep.
PairWake ==
    /\ \A i \in TaskIds : tasks[i].pc = "sleep"
    /\ tasks' = [i \in TaskIds |-> task_wake(tasks[i])]
    /\ UNCHANGED <<execVars, layerVars, tool, loop, bus>>

InitPair ==
    /\ \E c \in PairConfigs : ExecIdle(c)
    /\ tasks = <<Task("unary", <<>>), Task("stream", TaskWire(1))>>
    /\ tool = "idle"
    /\ loop = "idle"
    /\ bus = "idle"

NextPair ==
    \/ \E o \in Outcomes \cup {Cancelled} : PairPost(o)
    \/ PairWake

PairSpec == InitPair /\ [][NextPair]_vars

(***************************************************************************)
(* Tool execution: execute_tool of the Google and the OpenAI Responses     *)
(* providers, and the normalisation of a Responses function_call item.     *)
(***************************************************************************)
\* Python values, as far as dispatch looks at them: the type and the JSON text.
PyValue(type, v) == [type |-> type, v |-> v]
PyNone == PyValue("NoneType", <<>>)
PyStr(s) == PyValue("str", s)
PyInt == PyValue("int", <<"7">>)

\* bool(value)
value_truthy(x) ==
    /\ x.type # "NoneType"
    /\ ~(x.type = "str" /\ x.v = <<>>)
    /\ ~(x.type = "dict" /\ x.v = EmptyDict)

\* a or b
py_or(a, b) == IF truthy(a) THEN a ELSE b

\* The type of the value json.loads returns for a valid text.
json_type(s) ==
    LET t == json_loads(s) IN
    IF t[1] = "{" THEN "dict"
    ELSE IF t[1] = "[" THEN "list"
    ELSE IF t[1] = QUOTE THEN "str"
    ELSE "scalar"

JSONDecodeError == [kind |-> "JSONDecodeError", msg |-> <<"Expecting value">>]

\* if isinstance(args, str): args = json.loads(args)
\* elif not isinstance(args, dict): args = {}
parse_arguments(args) ==
    IF args.type = "str"
    THEN IF IsJSON(args.v)
         THEN [error |-> NoException, value |-> PyValue(json_type(args.v), json_loads(args.v))]
         ELSE [error |-> JSONDecodeError, value |-> PyNone]
    ELSE IF args.type # "dict" THEN [error |-> NoException, value |-> PyValue("dict", EmptyDict)]
    ELSE [error |-> NoException, value |-> args]

\* ToolCall.function and ToolCall.input: a dict or None.
NoFunction == [given |-> FALSE, name |-> "None", arguments |-> PyNone]
Function(name, arguments) == [given |-> TRUE, name |-> name, arguments |-> arguments]
NoInput == [given |-> FALSE, call_id |-> "None", value |-> PyNone]
CallIdInput(call_id) ==
    [given |-> TRUE, call_id |-> call_id, value |-> PyValue("dict", <<"{", "call_id", "}">>)]
ArgsInput(value) == [given |-> TRUE, call_id |-> "None", value |-> value]

\* ToolCall(id, type, name, input, function)
ToolCall(id, type, name, input, function) ==
    [id |-> id, type |-> type, name |-> name, input |-> input, function |-> function]

\* ToolCall.from_responses_api_function_call(fc_id, call_id, name, arguments)
from_responses_api_function_call(fc_id, call_id, name, arguments) ==
    ToolCall(fc_id, "function", name, CallIdInput(call_id), Function(name, arguments))

\* An output item of type function_call, as item.get reads it.
Item(id, call_id, name, arguments) ==
    [id |-> id, call_id |-> call_id, name |-> name, arguments |-> arguments]

\* The function_call branch of OpenAIResponsesProvider._parse_response.
normalize_function_call(item) ==
    from_responses_api_function_call(
        py_or(item.id, item.call_id), item.call_id, py_or(item.name, ""),
        IF value_truthy(item.arguments) THEN item.arguments ELSE PyStr(<<>>))

\* The result message of a tool call, and its absence.
NoOutput == [shape |-> "None", call_id |-> "None", name |-> "None", output |-> "None"]

\* ToolCall.function_call_output(call_id, output).to_responses_api_message()
function_call_output(call_id, output) ==
    [shape |-> "function_call_output", call_id |-> call_id, name |-> "None", output |-> output]

\* {"role": "user", "parts": [{"functionResponse": {"name", "response"}}]}
functionResponse(name, output) ==
    [shape |-> "functionResponse", call_id |-> "None", name |-> name, output |-> output]

NoToolDefined == [kind |-> "Exception", msg |-> <<"no tool defined">>]

\* ValueError(f"Tool {func_name} not found in tools_map")
ToolNotFound(func_name) ==
    [kind |-> "ValueError", msg |-> <<"Tool", func_name, "not found in tools_map">>]

\* The callables of a tools_map are mocks that return this, however called.
ToolReturn == "Sunny"

\* The id of the result record when the item id is used throughout.
tool_call_id_item(tc) == tc.id

\* call_id = (tool_call.input or {}).get("call_id") if tool_call.input else None
\* tool_call_id = call_id or tool_call.id
tool_call_id(tc) ==
    LET call_id == IF tc.input.given /\ value_truthy(tc.input.value)
                   THEN tc.input.call_id ELSE "None"
    IN  py_or(call_id, tc.id)

\* func_name in tools_map
lookup(func_name, tools_map) == func_name \in tools_map

\* execute_tool(tool_call, tools_map) of provider p: the error raised, the
\* calls made to callables of the table, the message returned.
execute_tool(p, tc, tools_map) ==
    LET isFunction == tc.type = "function" /\ tc.function.given
        isToolUse == ~isFunction /\ tc.type = "tool_use" /\ truthy(tc.name)
        func_name == IF isFunction THEN tc.function.name ELSE tc.name
        parsed == IF isFunction THEN parse_arguments(tc.function.arguments)
                  ELSE [error |-> NoException,
                        value |-> IF p = "openairesponses" /\ ~value_truthy(tc.input.value)
                                  THEN PyValue("dict", EmptyDict) ELSE tc.input.value]
        id == IF p = "openairesponses" /\ isFunction THEN tool_call_id(tc) ELSE tc.id
        failed(e) == [error |-> e, invoked |-> <<>>, output |-> NoOutput]
    IN  IF ~isFunction /\ ~isToolUse THEN failed(NoToolDefined)
        ELSE IF parsed.error # NoException THEN failed(parsed.error)
        ELSE IF ~truthy(func_name) THEN failed(NoToolDefined)
        ELSE IF ~lookup(func_name, tools_map) THEN failed(ToolNotFound(func_name))
        ELSE [error |-> NoException,
              invoked |-> <<[name |-> func_name,
                             how |-> IF parsed.value.type = "dict" THEN "keywords" ELSE "positional",
                             args |-> parsed.value]>>,
              output |-> IF p = "openairesponses" THEN function_call_output(id, ToolReturn)
                         ELSE functionResponse(func_name, ToolReturn)]

\* Item ids and call ids, the empty string for a missing key.
ItemIds == {"", "fc_1", "call_1"}
ToolNames == {"None", "", "get_weather", "non_existent_tool"}
ArgumentValues ==
    {PyNone, PyInt, PyValue("dict", EmptyDict),
     PyStr(<<>>), PyStr(<<"{">>), PyStr(EmptyDict), PyStr(<<"[", "]">>)}
Items ==
    {Item(i, c, n, a) : i \in ItemIds, c \in ItemIds, n \in {"None", "get_weather", "non_existent_tool"},
                        a \in {PyNone, PyStr(<<"{">>), PyStr(EmptyDict)}}
ToolCalls ==
    {ToolCall("call_123", "function", "None", NoInput, Function(n, a)) :
        n \in ToolNames, a \in ArgumentValues}
    \cup {ToolCall("call_123", "tool_use", n, ArgsInput(a), NoFunction) :
        n \in ToolNames, a \in {PyNone, PyValue("dict", EmptyDict)}}
    \cup {ToolCall("call_123", "unknown_type", "None", NoInput,
                    Function("get_weather", PyStr(EmptyDict)))}
ToolsMaps == {{"get_weather"}, {"get_weather", "calculate_total"}}

ToolState(p, stage, item, tc, tools_map) ==
    [provider |-> p, pc |-> stage, source |-> stage,
     item |-> item, tc |-> tc, tools_map |-> tools_map,
     error |-> NoException, invoked |-> <<>>, output |-> NoOutput]

\* _parse_response meets a function_call item and builds its ToolCall.
NormalizeItem ==
    /\ tool.pc = "item"
    /\ tool' = [tool EXCEPT !.tc = normalize_function_call(tool.item), !.pc = "call"]
    /\ UNCHANGED <<execVars, layerVars, tasks, loop, bus>>

\* await provider.execute_tool(tool_call, tools_map)
ExecuteTool ==
    /\ tool.pc = "call"
    /\ LET r == execute_tool(tool.provider, tool.tc, tool.tools_map) IN
       tool' = [tool EXCEPT !.error = r.error, !.invoked = r.invoked, !.output = r.output,
                            !.pc = IF r.error = NoException THEN "returned" ELSE "raised"]
    /\ UNCHANGED <<execVars, layerVars, tasks, loop, bus>>

\* A Responses item about to be normalised, or a ToolCall the caller built.
InitTool ==
    /\ ExecIdle(RetryConfig(1, DefaultRetryStatus, {}))
    /\ tasks = <<>>
    /\ loop = "idle"
    /\ bus = "idle"
    /\ \E m \in ToolsMaps :
        \/ \E it \in Items :
              tool = ToolState("openairesponses", "item", it,
                               ToolCall("", "None", "None", NoInput, NoFunction), m)
        \/ \E p \in {"google", "openairesponses"}, tc \in ToolCalls :
              tool = ToolState(p, "call", Item("", "", "None", PyNone), tc, m)

NextTool == NormalizeItem \/ ExecuteTool

ToolSpec == InitTool /\ [][NextTool]_vars

(***************************************************************************)
(* The auto tool loop: BaseProvider._auto_execute_tools with the OpenAI    *)
(* provider's _clean_messages, _create_assistant_message_with_tools and    *)
(* _execute_tools (pubsub = None).                                         *)
(***************************************************************************)
MaxToolIterations == 2

\* A message of the conversation, as a dict with these keys.
Message(role, tool_calls, id, content) ==
    [role |-> role, tool_calls |-> tool_calls, tool_call_id |-> id, content |-> content]

UserMessage == Message("user", <<>>, "None", "What's the weather?")

\* OpenAIProvider._clean_messages
clean_messages(messages) == messages

\* A parsed reply: MainResponse(content, tool_calls).
MainResponse(content, tool_calls) == [content |-> content, tool_calls |-> tool_calls]

\* OpenAIProvider._create_assistant_message_with_tools(main_resp)
create_assistant_message_with_tools(main_resp) ==
    Message("assistant", main_resp.tool_calls, "None", py_or(main_resp.content, ""))

\* {"role": "tool", "tool_call_id": tool_call_id, "content": str(result)}
ToolMessage(id) == Message("tool", <<>>, id, ToolReturn)

\* ValueError(f"Tool {func_name} not found in tool_executor")
ToolNotInExecutor(func_name) ==
    [kind |-> "ValueError", msg |-> <<"Tool", func_name, "not found in tool_executor">>]

\* The branch heads of _execute_tools: the calls it does not `continue` past.
dispatched(tc) ==
    \/ tc.type = "function" /\ tc.function.given
    \/ tc.type = "tool_use" /\ truthy(tc.name)

\* OpenAIProvider._execute_tools(tool_calls, tool_executor): acc collects the
\* ids of the calls whose callable was invoked and the result messages.
RECURSIVE execute_tools(_, _, _)
execute_tools(tool_calls, tool_executor, acc) ==
    IF tool_calls = <<>> THEN acc
    ELSE LET tc == Head(tool_calls)
             isFunction == tc.type = "function" /\ tc.function.given
             func_name == IF isFunction THEN tc.function.name ELSE tc.name
             parsed == IF isFunction THEN parse_arguments(tc.function.arguments)
                       ELSE [error |-> NoException, value |-> tc.input.value]
         IN  IF ~dispatched(tc) THEN execute_tools(Tail(tool_calls), tool_executor, acc)
             ELSE IF parsed.error # NoException THEN [acc EXCEPT !.error = parsed.error]
             ELSE IF ~truthy(func_name) THEN execute_tools(Tail(tool_calls), tool_executor, acc)
             ELSE IF func_name \notin tool_executor
             THEN [acc EXCEPT !.error = ToolNotInExecutor(func_name)]
             ELSE execute_tools(Tail(tool_calls), tool_executor,
                                [acc EXCEPT !.invoked = Append(@, tc.id),
                                            !.results = Append(@, ToolMessage(tc.id))])

\* The tool results in the reverse of the order of the calls.
extend_reversed(messages, tool_results) ==
    LET n == Len(tool_results) IN
    messages \o [i \in 1..n |-> tool_results[n + 1 - i]]

\* current_messages.extend(tool_results)
extend(messages, tool_results) == messages \o tool_results

\* A loop of one pass too many.
iterations_one_more(max_tool_iterations) == max_tool_iterations + 2

\* range(max_tool_iterations + 1)
iterations(max_tool_iterations) == max_tool_iterations + 1

\* RuntimeError(f"Exceeded maximum tool iterations ({max_tool_iterations})")
Exceeded(max_tool_iterations) ==
    [kind |-> "RuntimeError",
     msg |-> <<"Exceeded maximum tool iterations", max_tool_iterations>>]

\* The tool calls a model reply can carry.
FunctionCall(id, name, arguments) ==
    ToolCall(id, "function", "None", NoInput, Function(name, arguments))
GoodCall(id) == FunctionCall(id, "get_weather", PyStr(EmptyDict))
ModelReplies ==
    {MainResponse("final", <<>>),
     MainResponse("None", <<GoodCall("call_1")>>),
     MainResponse("text", <<GoodCall("call_1"), GoodCall("call_2")>>),
     MainResponse("None", <<GoodCall("call_2"), GoodCall("call_1")>>),
     MainResponse("None", <<FunctionCall("call_1", "non_existent_tool", PyStr(EmptyDict))>>),
     MainResponse("None", <<FunctionCall("call_1", "get_weather", PyStr(<<"{">>))>>),
     MainResponse("None", <<FunctionCall("call_1", "", PyStr(EmptyDict)), GoodCall("call_2")>>),
     MainResponse("None", <<ToolCall("call_1", "unknown_type", "None", NoInput,
                                     Function("get_weather", PyStr(EmptyDict)))>>)}

\* The locals of _auto_execute_tools and what it has sent, received and run.
LoopState(m) ==
    [max_tool_iterations |-> m, pc |-> "request", iteration |-> 0,
     current_messages |-> <<UserMessage>>, requests |-> <<>>, responses |-> <<>>,
     executed |-> <<>>, result |-> MainResponse("None", <<>>), error |-> NoException]

\* Leaving the for loop when range() is exhausted.
next_pass(l) ==
    IF l.iteration < iterations(l.max_tool_iterations) THEN [l EXCEPT !.pc = "request"]
    ELSE [l EXCEPT !.pc = "raised", !.error = Exceeded(l.max_tool_iterations)]

\* One pass up to the tool execution: the request is sent, the reply comes.
LoopComplete(reply) ==
    /\ loop.pc = "request"
    /\ LET sent == [loop EXCEPT !.iteration = @ + 1,
                                !.requests = Append(@, clean_messages(loop.current_messages)),
                                !.responses = Append(@, reply)]
       IN  loop' = IF reply.tool_calls # <<>>
                   THEN [sent EXCEPT !.pc = "tools",
                                     !.current_messages =
                                         Append(@, create_assistant_message_with_tools(reply))]
                   ELSE [sent EXCEPT !.pc = "returned", !.result = reply]
    /\ UNCHANGED <<execVars, layerVars, tasks, tool, bus>>

\* _single_complete raises: the error leaves the loop.
LoopCompleteRaise ==
    /\ loop.pc = "request"
    /\ loop' = [loop EXCEPT !.iteration = @ + 1,
                            !.requests = Append(@, clean_messages(loop.current_messages)),
                            !.pc = "raised",
                            !.error = HttpError(500, "Internal Server Error")]
    /\ UNCHANGED <<execVars, layerVars, tasks, tool, bus>>

\* The rest of the pass: the tools run, their results join the conversation.
LoopExecuteTools ==
    /\ loop.pc = "tools"
    /\ LET main_resp == loop.responses[Len(loop.responses)]
           r == execute_tools(main_resp.tool_calls, {"get_weather"},
                              [error |-> NoException, invoked |-> <<>>, results |-> <<>>])
           ran == [loop EXCEPT !.executed =
                       @ \o [i \in 1..Len(r.invoked) |-> <<loop.iteration, r.invoked[i]>>]]
       IN  loop' = IF r.error # NoException
                   THEN [ran EXCEPT !.pc = "raised", !.error = r.error]
                   ELSE next_pass([ran EXCEPT !.current_messages = extend(@, r.results)])
    /\ UNCHANGED <<execVars, layerVars, tasks, tool, bus>>

InitLoop ==
    /\ ExecIdle(RetryConfig(1, DefaultRetryStatus, {}))
    /\ tasks = <<>>
    /\ tool = "idle"
    /\ bus = "idle"
    /\ \E m \in 0..MaxToolIterations : loop = LoopState(m)

NextLoop ==
    \/ \E reply \in ModelReplies : LoopComplete(reply)
    \/ LoopCompleteRaise
    \/ LoopExecuteTools

LoopSpec == InitLoop /\ [][NextLoop]_vars

(***************************************************************************)
(* LocalQueueBackend: publish, subscribe and close on one event loop.      *)
(* asyncio.Queue() is unbounded, so `await queue.put(event)` never         *)
(* suspends and a publish is one step; a subscriber suspends in            *)
(* `await queue.get()` while its queue is empty and at `yield event`.      *)
(***************************************************************************)
MaxEvents == 2

Subscribers == {1, 2}

\* Topics and patterns, as strings of these pieces.
TopicStart == <<"tools", ".", "test", ".", "start">>
TopicComplete == <<"tools", ".", "test", ".", "complete">>
TopicOther == <<"other">>
Topics == {TopicStart, TopicComplete, TopicOther}
Patterns == {TopicStart, <<"tools", ".", "test", ".", "*">>, <<"*">>}

BackendClosed == [kind |-> "RuntimeError", msg |-> <<"Backend is closed">>]

\* _match_topic without the wildcards.
match_topic_exact(topic, pattern) == topic = pattern

\* LocalQueueBackend._match_topic(topic, pattern)
match_topic(topic, pattern) ==
    IF pattern = <<"*">> THEN TRUE
    ELSE IF pattern # <<>> /\ pattern[Len(pattern)] = "*"
    THEN startswith(topic, SubSeq(pattern, 1, Len(pattern) - 1))
    ELSE topic = pattern

\* A call of subscribe(pattern) whose generator has not started yet.
Subscription(pattern) ==
    [pattern |-> pattern, pc |-> "new", queue |-> <<>>, received |-> <<>>,
     error |-> NoException]

\* LocalQueueBackend() and the subscribe() calls made on it: `queues` holds
\* the subscribers whose queue is in _queues, `published` what publish was
\* called with and who was registered then.
Backend(p1, p2) ==
    [closed |-> FALSE, queues |-> {}, subs |-> <<Subscription(p1), Subscription(p2)>>,
     published |-> <<>>, publish_error |-> NoException]

\* The finally clause of subscribe: the queue leaves _queues.
cleanup(b, s) == [b EXCEPT !.queues = @ \ {s}]

\* The loop of subscribe from its `while not self._closed` on: the generator
\* ends, yields the event at the head of its queue, or suspends in get().
subscribe_loop(b, s) ==
    IF b.closed THEN [cleanup(b, s) EXCEPT !.subs[s].pc = "ended"]
    ELSE IF b.subs[s].queue # <<>>
    THEN [b EXCEPT !.subs[s].received = Append(@, Head(b.subs[s].queue)),
                   !.subs[s].queue = Tail(@),
                   !.subs[s].pc = "yielded"]
    ELSE [b EXCEPT !.subs[s].pc = "waiting"]

\* await backend.publish(topic, event): event number Len(published) + 1.
Publish(topic) ==
    /\ Len(bus.published) < MaxEvents
    /\ LET event == Len(bus.published) + 1
           sent == [bus EXCEPT !.published =
                        Append(@, [topic |-> topic, event |-> event,
                                   closed |-> bus.closed, registered |-> bus.queues])]
       IN  bus' = IF bus.closed
                  THEN [sent EXCEPT !.publish_error = BackendClosed]
                  ELSE [sent EXCEPT !.publish_error = NoException,
                                    !.subs = [s \in Subscribers |->
                                        IF s \in bus.queues
                                           /\ match_topic(topic, bus.subs[s].pattern)
                                        THEN [bus.subs[s] EXCEPT !.queue = Append(@, event)]
                                        ELSE bus.subs[s]]]
    /\ UNCHANGED <<execVars, layerVars, tasks, tool, loop>>

\* The first iteration of a subscription: the body of subscribe starts.
SubscribeStart(s) ==
    /\ bus.subs[s].pc = "new"
    /\ bus' = IF bus.closed
              THEN [bus EXCEPT !.subs[s].pc = "raised", !.subs[s].error = BackendClosed]
              ELSE subscribe_loop([bus EXCEPT !.queues = @ \cup {s}], s)
    /\ UNCHANGED <<execVars, layerVars, tasks, tool, loop>>

\* A subscriber suspended in queue.get() is resumed with an event and yields it.
SubscribeWake(s) ==
    /\ bus.subs[s].pc = "waiting"
    /\ bus.subs[s].queue # <<>>
    /\ bus' = [bus EXCEPT !.subs[s].received = Append(@, Head(bus.subs[s].queue)),
                          !.subs[s].queue = Tail(@),
                          !.subs[s].pc = "yielded"]
    /\ UNCHANGED <<execVars, layerVars, tasks, tool, loop>>

\* The consumer asks for the next event: the generator resumes after its yield.
SubscribeNext(s) ==
    /\ bus.subs[s].pc = "yielded"
    /\ bus' = subscribe_loop(bus, s)
    /\ UNCHANGED <<execVars, layerVars, tasks, tool, loop>>

\* The consumer left its loop: the generator is closed at its yield.
SubscribeBreak(s) ==
    /\ bus.subs[s].pc = "yielded"
    /\ bus' = [cleanup(bus, s) EXCEPT !.subs[s].pc = "closed"]
    /\ UNCHANGED <<execVars, layerVars, tasks, tool, loop>>

\* await backend.close()
Close ==
    /\ ~bus.closed
    /\ bus' = [bus EXCEPT !.closed = TRUE, !.queues = {}]
    /\ UNCHANGED <<execVars, layerVars, tasks, tool, loop>>

InitBus ==
    /\ ExecIdle(RetryConfig(1, DefaultRetryStatus, {}))
    /\ tasks = <<>>
    /\ tool = "idle"
    /\ loop = "idle"
    /\ \E p1, p2 \in Patterns : bus = Backend(p1, p2)

NextBus ==
    \/ \E topic \in Topics : Publish(topic)
    \/ \E s \in Subscribers :
          \/ SubscribeStart(s)
          \/ SubscribeWake(s)
          \/ SubscribeNext(s)
          \/ SubscribeBreak(s)
    \/ Close

BusSpec == InitBus /\ [][NextBus]_vars

\* The event loop resumes every task whose awaited queue.get() can return;
\* what the publisher, the closer and the consumers do next is up to them.
BusFairSpec == BusSpec /\ \A s \in Subscribers : WF_vars(SubscribeWake(s))

(***************************************************************************)
(* Tool execution with a pub/sub attached: OpenAIProvider._execute_tools   *)
(* with pubsub a PubSub over a LocalQueueBackend.  A publish on an open    *)
(* backend does not suspend; on a closed one it raises.                    *)
(***************************************************************************)
MaxBatch == 2

\* What the callables of the tool_executor do when called.
ToolExecutor == {"get_weather", "faulty"}
ToolFailed == [kind |-> "ValueError", msg |-> <<"Tool execution failed">>]

\* An entry of the record of a batch: an event published on
\* tools.openai.<name>.<what>, or the call of the callable (what = "invoke").
Did(n, what, name) == [n |-> n, what |-> what, name |-> name]

\* The body of the try block with the start event left out.
run_tool_unannounced(n, name, open) ==
    IF ~open THEN [trace |-> <<>>, error |-> BackendClosed]
    ELSE IF name = "faulty"
    THEN [trace |-> <<Did(n, "invoke", name), Did(n, "error", name)>>,
          error |-> ToolFailed]
    ELSE [trace |-> <<Did(n, "invoke", name), Did(n, "complete", name)>>,
          error |-> NoException]

\* try: publish start; call the tool; publish complete
\* except Exception: publish error; raise
run_tool(n, name, open) ==
    IF ~open THEN [trace |-> <<>>, error |-> BackendClosed]
    ELSE IF name = "faulty"
    THEN [trace |-> <<Did(n, "start", name), Did(n, "invoke", name), Did(n, "error", name)>>,
          error |-> ToolFailed]
    ELSE [trace |-> <<Did(n, "start", name), Did(n, "invoke", name), Did(n, "complete", name)>>,
          error |-> NoException]

\* One pass of `for tool_call in tool_calls` on the n-th call of the batch.
execute_tools_pass(b, n) ==
    LET tc == b.tool_calls[n]
        isFunction == tc.type = "function" /\ tc.function.given
        func_name == IF isFunction THEN tc.function.name ELSE tc.name
        parsed == IF isFunction THEN parse_arguments(tc.function.arguments)
                  ELSE [error |-> NoException, value |-> tc.input.value]
        open == b.pubsub = "open"
        over == [b EXCEPT !.done = n,
                          !.pc = IF n = Len(b.tool_calls) THEN "returned" ELSE "running"]
        raised(e) == [b EXCEPT !.done = n, !.pc = "raised", !.error = e]
    IN  IF ~dispatched(tc) THEN over
        ELSE IF parsed.error # NoException THEN raised(parsed.error)
        ELSE IF ~truthy(func_name) THEN over
        ELSE IF func_name \notin ToolExecutor
        THEN IF open
             THEN [raised(ToolNotInExecutor(func_name))
                      EXCEPT !.trace = Append(@, Did(n, "error", func_name))]
             ELSE raised(BackendClosed)
        ELSE LET r == run_tool(n, func_name, open) IN
             IF r.error # NoException
             THEN [raised(r.error) EXCEPT !.trace = @ \o r.trace]
             ELSE [over EXCEPT !.trace = @ \o r.trace,
                               !.results = Append(@, ToolMessage(tc.id))]

\* The tool calls of a batch.
BatchCalls ==
    {FunctionCall("call_1", "get_weather", PyStr(EmptyDict)),
     FunctionCall("call_2", "faulty", PyStr(EmptyDict)),
     FunctionCall("call_3", "unknown_tool", PyStr(EmptyDict)),
     FunctionCall("call_4", "get_weather", PyStr(<<"{">>)),
     ToolCall("call_5", "unknown_type", "None", NoInput,
              Function("get_weather", PyStr(EmptyDict)))}

RECURSIVE Batches(_)
Batches(n) ==
    IF n = 0 THEN {<<>>}
    ELSE Batches(n - 1) \cup {Append(b, tc) : b \in Batches(n - 1), tc \in BatchCalls}

ExecuteToolsPass ==
    /\ tool.pc = "running"
    /\ tool' = execute_tools_pass(tool, tool.done + 1)
    /\ UNCHANGED <<execVars, layerVars, tasks, loop, bus>>

InitEvents ==
    /\ ExecIdle(RetryConfig(1, DefaultRetryStatus, {}))
    /\ tasks = <<>>
    /\ loop = "idle"
    /\ bus = "idle"
    /\ \E calls \in Batches(MaxBatch) \ {<<>>}, ps \in {"open", "closed"} :
          tool = [pubsub |-> ps, tool_calls |-> calls, done |-> 0, pc |-> "running",
                  trace |-> <<>>, results |-> <<>>, error |-> NoException]

NextEvents == ExecuteToolsPass

EventSpec == InitEvents /\ [][NextEvents]_vars

(***************************************************************************)
(* The unary normalizers: the reply body of a non-streaming call and the   *)
(* canonical message a provider's _parse_response builds from it.          *)
(***************************************************************************)
MaxBlocks == 2

\* "".join(parts) and repeated `text += ...`
RECURSIVE join(_)
join(parts) == IF parts = <<>> THEN "" ELSE Head(parts) \o join(Tail(parts))

\* All sequences of at most n members of S.
RECURSIVE SeqsUpTo(_, _)
SeqsUpTo(S, n) ==
    IF n = 0 THEN {<<>>}
    ELSE SeqsUpTo(S, n - 1) \cup {Append(q, x) : q \in SeqsUpTo(S, n - 1), x \in S}

\* The canonical message: content is a str or None; tool_calls is a list or
\* None (null = TRUE).
Canonical(content, tool_calls, null) ==
    [content |-> content, tool_calls |-> tool_calls, tool_calls_null |-> null]

\* collected or None
list_or_none(content, tool_calls) == Canonical(content, tool_calls, tool_calls = <<>>)

\* A Chat message: has_content tells whether the key "content" is there.
ChatMessage(has_content, content, tool_calls) ==
    [has_content |-> has_content, content |-> content, tool_calls |-> tool_calls]

\* message.get("content")
get_content(message) == IF message.has_content THEN message.content ELSE "None"

\* The content of OpenAIProvider._parse_response: content=message.get("content")
parse_openai_content(message) == get_content(message)

\* OpenAIProvider._parse_response(original), original["choices"][0]["message"]
parse_openai(message) ==
    list_or_none(parse_openai_content(message),
                 [i \in 1..Len(message.tool_calls) |->
                     ToolCall(message.tool_calls[i].id, message.tool_calls[i].type, "None",
                              NoInput, message.tool_calls[i].function)])

\* A content block of a Claude reply; has_text tells whether it has a "text" key.
Block(type, has_text, t, id) == [type |-> type, has_text |-> has_text, text |-> t, id |-> id]

\* The text a block adds: block.get("text", "") of a block of type text or,
\* failing type text and tool_use, of a block with a "text" key.
block_text_typed_only(block) == IF block.type = "text" THEN block.text ELSE ""

block_text(block) ==
    IF block.type = "text" THEN block.text
    ELSE IF block.type = "tool_use" THEN ""
    ELSE IF block.has_text THEN block.text
    ELSE ""

\* ClaudeProvider._parse_response(original), original["content"]
parse_claude(blocks) ==
    LET uses == SelectSeq(blocks, LAMBDA b : b.type = "tool_use")
        text_content == join([i \in 1..Len(blocks) |-> block_text(blocks[i])])
    IN  list_or_none(py_or(text_content, "None"),
                     [i \in 1..Len(uses) |->
                         ToolCall(uses[i].id, "tool_use", "get_weather",
                                  ArgsInput(PyValue("dict", EmptyDict)), NoFunction)])

\* An entry of the content list of a Responses output item; text is "None"
\* when it is no str.
Entry(type, t) == [type |-> type, text |-> t]
OutputItem(type, has_content, content) ==
    [type |-> type, has_content |-> has_content, content |-> content]

\* The text parts of an output item: the entries of type output_text or text
\* whose text is a str.
item_parts(item) ==
    IF item.type = "function_call" \/ ~item.has_content THEN <<>>
    ELSE LET texts == SelectSeq(item.content,
                          LAMBDA e : e.type \in {"output_text", "text"} /\ e.text # "None")
         IN  [i \in 1..Len(texts) |-> texts[i].text]

RECURSIVE output_parts(_)
output_parts(items) ==
    IF items = <<>> THEN <<>> ELSE item_parts(Head(items)) \o output_parts(Tail(items))

\* A Responses reply body: a non-empty `output` list, else an `output_text`
\* str, else chat-shaped `choices`, else none of them.
Original(shape, output, output_text, message) ==
    [shape |-> shape, output |-> output, output_text |-> output_text, message |-> message]

\* The text OpenAIResponsesProvider._parse_response extracts.
responses_text(original) ==
    CASE original.shape = "output" -> join(output_parts(original.output))
      [] original.shape = "output_text" -> original.output_text
      [] original.shape = "choices" -> py_or(get_content(original.message), "")
      [] OTHER -> ""

\* Message(role="assistant", content=text, ...)
responses_content(t) == t

\* OpenAIResponsesProvider._parse_response(original)
parse_responses(original) ==
    LET calls == IF original.shape = "output"
                 THEN SelectSeq(original.output, LAMBDA it : it.type = "function_call")
                 ELSE <<>>
    IN  list_or_none(responses_content(responses_text(original)),
                     [i \in 1..Len(calls) |->
                         normalize_function_call(
                             Item("fc_1", "call_1", "get_weather", PyStr(EmptyDict)))])

\* The reply bodies parsed.
ChatMessages ==
    {ChatMessage(h, c, t) :
        h \in BOOLEAN, c \in {"None", "", "Hello!"},
        t \in {<<>>, <<[id |-> "call_123", type |-> "function",
                        function |-> Function("get_weather", PyStr(EmptyDict))]>>}}
Blocks ==
    {Block("text", TRUE, "Hel", ""), Block("text", TRUE, "lo", ""),
     Block("text", TRUE, "", ""),
     Block("tool_use", FALSE, "", "toolu_1"), Block("tool_use", FALSE, "", "toolu_2"),
     Block("thinking", FALSE, "", ""), Block("absent", TRUE, "raw", "")}
OutputItems ==
    {OutputItem("message", TRUE, <<Entry("output_text", "Hi")>>),
     OutputItem("message", TRUE, <<Entry("text", ""), Entry("refusal", "no")>>),
     OutputItem("message", TRUE, <<>>),
     OutputItem("reasoning", FALSE, <<>>),
     OutputItem("function_call", FALSE, <<>>)}
Originals ==
    {Original("output", o, "", ChatMessage(FALSE, "None", <<>>)) :
        o \in SeqsUpTo(OutputItems, MaxBlocks) \ {<<>>}}
    \cup {Original("output_text", <<>>, t, ChatMessage(FALSE, "None", <<>>)) : t \in {"", "Hi"}}
    \cup {Original("choices", <<>>, "", ChatMessage(h, c, <<>>)) :
            h \in BOOLEAN, c \in {"None", "", "Hi"}}
    \cup {Original("none", <<>>, "", ChatMessage(FALSE, "None", <<>>))}

\* The part of a body the normalizer of provider p reads.
Body(p, message, blocks, original) ==
    [provider |-> p, pc |-> "raw", message |-> message, blocks |-> blocks,
     original |-> original, parsed |-> Canonical("None", <<>>, TRUE)]

\* _parse_response(original) of the provider that received the reply.
ParseResponse ==
    /\ parsing.pc = "raw"
    /\ parsing' = [parsing EXCEPT
                    !.pc = "parsed",
                    !.parsed = CASE parsing.provider = "openai" -> parse_openai(parsing.message)
                                 [] parsing.provider = "claude" -> parse_claude(parsing.blocks)
                                 [] OTHER -> parse_responses(parsing.original)]
    /\ UNCHANGED <<retries, cfg, call, wire, pc, attempt, posts, history, result, error,
                   pos, buffer, text, seen, yielded, halted, delay>>
    /\ UNCHANGED <<request, response_schema, client, provider, response, fed, chunks, contents,
                   pass>>
    /\ UNCHANGED libVars

InitNorm ==
    /\ ExecFields(RetryConfig(1, DefaultRetryStatus, {}), "none", <<>>, "HTTPClient", "None",
                  "attempt", "absent")
    /\ retries = Retries(FALSE)
    /\ request = Accepted(<<>>)
    /\ tasks = <<>>
    /\ tool = "idle"
    /\ loop = "idle"
    /\ bus = "idle"
    /\ LET noMessage == ChatMessage(FALSE, "None", <<>>)
           noOriginal == Original("none", <<>>, "", noMessage)
       IN  \/ \E m \in ChatMessages : parsing = Body("openai", m, <<>>, noOriginal)
           \/ \E b \in SeqsUpTo(Blocks, MaxBlocks) : parsing = Body("claude", noMessage, b, noOriginal)
           \/ \E o \in Originals : parsing = Body("openairesponses", noMessage, <<>>, o)

NextNorm == ParseResponse

NormSpec == InitNorm /\ [][NextNorm]_vars

(***************************************************************************)
(* acomplete on messages of every form and role.                           *)
(***************************************************************************)
MaxMessages == 2

GivenMessages ==
    {Given(form, role) : form \in {"Message", "mapping"}, role \in {"user", "assistant", "admin"}}

\* acomplete(model, messages, stream) of every provider; one attempt per call.
InitMessages ==
    \E p \in Providers, k \in {"unary", "stream"} :
        \E ms \in SeqsUpTo(GivenMessages, MaxMessages) \ {<<>>} :
            /\ ExecFields(RetryConfig(1, DefaultRetryStatus, {}), k, <<>>, "HTTPClient", p,
                          "acomplete", "None")
            /\ retries = Retries(FALSE)
            /\ parsing = "none"
            /\ request = Request(ms)
            /\ tasks = <<>>
            /\ tool = "idle"
            /\ loop = "idle"
            /\ bus = "idle"

NextMessages ==
    \/ AComplete
    \/ SingleComplete
    \/ \E o \in DelayOutcomes : UnaryPost(o)
    \/ ReturnResponse
    \/ ReturnStream
    \/ Iterate
    \/ \E o \in DelayOutcomes : StreamPost(o)

MessageSpec == InitMessages /\ [][NextMessages]_vars

(***************************************************************************)
(* Vocabulary of the properties                                            *)
(***************************************************************************)
IsSuccess(o) == o.type = "response" /\ o.status < 400
IsFailure(o) == ~IsSuccess(o)
IsStatusFailure(o) == o.type = "response" /\ o.status >= 400

\* The failure of outcome o is an instance of a configured exception class
\* (a failure built from a status >= 400 is a plain Exception).
OfRetryableKind(c, o) ==
    IF o.type = "raise" THEN o.kind \in c.retry_on_exceptions \/ "Exception" \in c.retry_on_exceptions
    ELSE "Exception" \in c.retry_on_exceptions

\* A retryable failure of the unary executor: of a configured class, or standing
\* for an HTTP response (a status >= 400, or a message carrying an "HTTP <code>"
\* marker) whose status is in retry_on_status.
RetryableUnary(c, o) ==
    /\ IsFailure(o)
    /\ \/ OfRetryableKind(c, o)
       \/ IsStatusFailure(o) /\ o.status \in c.retry_on_status
       \/ o.type = "raise" /\ \E i \in 1..(Len(o.msg) - 1) :
              /\ o.msg[i] = "HTTP"
              /\ \A j \in 1..(i - 1) : ~(o.msg[j] = "HTTP" /\ o.msg[j + 1] \in DigitStrings)
              /\ \E st \in c.retry_on_status : o.msg[i + 1] = StatusStr(st)

\* A retryable failure of the streaming executor's connection phase: of a
\* configured class, or a status >= 400 that is in retry_on_status.
RetryableStream(c, o) ==
    /\ IsFailure(o)
    /\ \/ OfRetryableKind(c, o)
       \/ IsStatusFailure(o) /\ o.status \in c.retry_on_status

AllBefore(k, P(_)) == \A i \in 1..(k - 1) : P(history[i])

RetryableU(o) == RetryableUnary(cfg, o)
RetryableS(o) == RetryableStream(cfg, o)

Connected == \E i \in 1..Len(history) : IsSuccess(history[i])

(***************************************************************************)
(* C1  Retry bound of post_json.  With max_attempts = N >= 1: while every  *)
(* attempt so far failed with a retryable failure the call goes on until   *)
(* it has issued exactly N POSTs and then raises; when the first attempt   *)
(* fails with a non-retryable failure the call has issued exactly 1 POST   *)
(* and has raised that failure.                                            *)
(***************************************************************************)
C1_RetryBound ==
    call = "unary" =>
        /\ posts = Len(history)
        /\ (AllBefore(Len(history) + 1, RetryableU) =>
                /\ posts <= cfg.max_attempts
                /\ (pc = "raised") = (posts = cfg.max_attempts)
                /\ pc \in {"attempt", "sleep", "raised"})
        /\ (Len(history) >= 1 /\ IsFailure(history[1]) /\ ~RetryableU(history[1]) =>
                /\ posts = 1
                /\ pc = "raised"
                /\ error = post_json_core_raises(history[1]))

C1_Witness ==
    /\ call = "unary"
    /\ cfg.max_attempts = 3
    /\ pc = "raised"
    /\ posts = 3
    /\ AllBefore(4, RetryableU)
    /\ history[1].type = "response" /\ history[2].type = "raise"

(***************************************************************************)
(* C2  post_json, as claimed for every RetryConfig: an attempt that ends   *)
(* with a status >= 400 is followed by another POST only if the status is  *)
(* in retry_on_status; with a status outside it the call has failed right  *)
(* after that attempt.                                                     *)
(***************************************************************************)
StatusRetryOnlyIfListed ==
    \A i \in 1..Len(history) :
        IsStatusFailure(history[i]) =>
            /\ (Len(history) > i => history[i].status \in cfg.retry_on_status)
            /\ (history[i].status \notin cfg.retry_on_status =>
                    /\ pc = "raised"
                    /\ error = HttpError(history[i].status, history[i].body))

C2_Original == call = "unary" => StatusRetryOnlyIfListed

\* C2 as amended: the same, for every RetryConfig whose retry_on_exceptions
\* lists neither Exception nor a base class of it (the failure raised for a
\* status >= 400 is a plain Exception, and a listed class is retried first).
C2_StatusRetry ==
    call = "unary" /\ "Exception" \notin cfg.retry_on_exceptions => StatusRetryOnlyIfListed

C2_Witness ==
    /\ call = "unary"
    /\ "Exception" \notin cfg.retry_on_exceptions
    /\ cfg.max_attempts = 3
    /\ Len(history) = 2
    /\ history[1] = Resp(500, "Internal Server Error")
    /\ history[2] = Resp(400, "Bad Request")
    /\ pc = "raised"

(***************************************************************************)
(* C3  post_json with max_attempts = N: when the first k-1 attempts        *)
(* (k <= N) failed with retryable failures the k-th attempt is made, and   *)
(* when it returns a status < 400 exactly k POSTs have been issued and the *)
(* result is the parsed body of the k-th response.                         *)
(***************************************************************************)
C3_RetryThenSuccess ==
    call = "unary" =>
        LET k == Len(history) IN
        /\ (k < cfg.max_attempts /\ AllBefore(k + 1, RetryableU) => pc \in {"attempt", "sleep"})
        /\ (k >= 1 /\ AllBefore(k, RetryableU) /\ IsSuccess(history[k]) =>
                /\ k <= cfg.max_attempts
                /\ posts = k
                /\ pc = "done"
                /\ result = history[k].body)

C3_Witness ==
    /\ call = "unary"
    /\ pc = "done"
    /\ posts = 3
    /\ history[1] = Resp(500, "Internal Server Error")
    /\ history[2].type = "raise"
    /\ result = "body2"

(***************************************************************************)
(* C4  stream_json: once a POST has returned a response with status < 400, *)
(* no step issues another POST, whatever read_chunks does afterwards.      *)
(***************************************************************************)
C4_NoReconnect == [][call = "stream" /\ Connected => posts' = posts]_vars

\* read_chunks raised a retryable exception with attempts still left.
C4_Witness ==
    /\ call = "stream"
    /\ Connected
    /\ pc = "raised"
    /\ error.kind \in cfg.retry_on_exceptions
    /\ posts < cfg.max_attempts
    /\ yielded # <<>>

(***************************************************************************)
(* The events a text holds, read off the text as a whole                   *)
(***************************************************************************)
IsDataLine(l) == startswith(strip(l), DataPrefix)
PayloadOf(l) == strip(SubSeq(strip(l), Len(DataPrefix) + 1, Len(strip(l))))

\* The payloads of the `data:` lines of t, in order.
Payloads(t) ==
    LET dl == SelectSeq(splitlines(t), IsDataLine)
    IN  [i \in 1..Len(dl) |-> PayloadOf(dl[i])]

\* The payloads that precede the first sentinel.
BeforeSentinel(ps) ==
    LET at == {i \in 1..Len(ps) : ps[i] = DONE} IN
    IF at = {} THEN ps
    ELSE SubSeq(ps, 1, (CHOOSE i \in at : \A j \in at : i <= j) - 1)

ValuesOf(ps) ==
    LET ok == SelectSeq(ps, IsJSON)
    IN  [i \in 1..Len(ok) |-> json_loads(ok[i])]

\* The events of text t: its JSON `data:` payloads before the first sentinel.
EventsOf(t) == ValuesOf(BeforeSentinel(Payloads(t)))

\* The part of t that is closed by a blank line.
Terminated(t) ==
    LET at == {i \in 1..(Len(t) - 1) : t[i] = LF /\ t[i + 1] = LF} IN
    IF at = {} THEN <<>>
    ELSE SubSeq(t, 1, (CHOOSE i \in at : \A j \in at : j <= i) + 1)

IsPrefix(a, b) == Len(a) <= Len(b) /\ SubSeq(b, 1, Len(a)) = a

\* stream_json fed the bytes w as one fragment, then the end of the stream.
UnsplitEvents(w) ==
    LET r == process_events(decode_chunk(w), Progress(<<>>, <<>>, FALSE)) IN
    IF r.p.done \/ r.buffer = <<>> THEN r.p.out
    ELSE process_lines(splitlines(r.buffer), r.p).out

(***************************************************************************)
(* C5  When read_chunks raises, every event closed by a blank line in the  *)
(* text received so far has been yielded, the exception raised to the      *)
(* consumer is the transport's own, and no step withdraws or repeats a     *)
(* yielded event (the yielded sequence only grows at its end).             *)
(***************************************************************************)
C5_PartialProgress ==
    /\ [](call = "stream" /\ Connected /\ pc = "raised" =>
            /\ yielded = EventsOf(Terminated(text))
            /\ error \in ReadErrors)
    /\ [][IsPrefix(yielded, yielded')]_vars

C5_Witness ==
    /\ call = "stream"
    /\ Connected
    /\ pc = "raised"
    /\ Len(yielded) = 2
    /\ yielded[1] # yielded[2]
    /\ buffer # <<>>

(***************************************************************************)
(* C6  stream_json with max_attempts = N: when the first k-1 connection    *)
(* attempts (k <= N) failed with a retryable exception or a status of      *)
(* retry_on_status the k-th attempt is made; when it returns a status      *)
(* < 400 exactly k POSTs have been issued, and once the stream has ended   *)
(* the events of the text of that response have been yielded.              *)
(***************************************************************************)
C6_ConnectRetry ==
    call = "stream" /\ client # "None" =>
        LET k == Len(history) IN
        /\ (k < cfg.max_attempts /\ AllBefore(k + 1, RetryableS) => pc \in {"attempt", "sleep"})
        /\ (k >= 1 /\ AllBefore(k, RetryableS) /\ IsSuccess(history[k]) =>
                /\ k <= cfg.max_attempts
                /\ posts = k
                /\ pc \in {"reading", "done", "raised"}
                /\ (pc = "raised" => error \in ReadErrors)
                /\ (pc = "done" => yielded = EventsOf(text)))

C6_Witness ==
    /\ call = "stream"
    /\ pc = "done"
    /\ posts = 3
    /\ history[1] = Resp(500, "Internal Server Error")
    /\ history[2].type = "raise"
    /\ Len(yielded) = 1

(***************************************************************************)
(* C7  stream_json: a connection attempt that fails with a non-retryable   *)
(* failure, or with any failure on attempt N = max_attempts, makes the     *)
(* iteration raise with zero events yielded; after a non-retryable first   *)
(* failure exactly 1 POST has been issued, after N retryable failures      *)
(* exactly N.                                                              *)
(***************************************************************************)
C7_ConnectFailure ==
    call = "stream" /\ client # "None" /\ ~Connected =>
        LET k == Len(history) IN
        /\ posts = k
        /\ yielded = <<>>
        /\ (k >= 1 /\ (~RetryableS(history[k]) \/ k = cfg.max_attempts) =>
                /\ pc = "raised"
                /\ error = post_json_core_raises(history[k]))
        /\ (k >= 1 /\ ~RetryableS(history[1]) => posts = 1)
        /\ (pc = "raised" /\ AllBefore(k + 1, RetryableS) => posts = cfg.max_attempts)

C7_Witness ==
    /\ call = "stream"
    /\ ~Connected
    /\ pc = "raised"
    /\ cfg.max_attempts = 3
    /\ posts = 3
    /\ history[3].type = "response"
    /\ yielded = <<>>

(***************************************************************************)
(* C8  Every way of cutting the bytes of a response into fragments makes   *)
(* stream_json yield the events it yields for the same bytes in one        *)
(* fragment.                                                               *)
(***************************************************************************)
C8_Reassembly ==
    call = "stream" /\ pc = "done" => yielded = UnsplitEvents(wire)

(***************************************************************************)
(* C9  Once a `data: [DONE]` line is met the generator has returned: the   *)
(* sentinel is the last payload ever extracted, nothing after it is parsed *)
(* or yielded, and no further chunk is read.                               *)
(***************************************************************************)
C9_Sentinel ==
    call = "stream" =>
        /\ \A i \in 1..(Len(seen) - 1) : seen[i] # DONE
        /\ (halted = "sentinel") = (seen # <<>> /\ seen[Len(seen)] = DONE)
        /\ (halted = "sentinel" =>
                pc = "done" /\ ~ENABLED (\E n \in 0..Len(wire) : ReadChunk(n)))
        /\ yielded = ValuesOf(BeforeSentinel(seen))

\* The sentinel was met with later events still in the buffer and bytes unread.
C9_Witness ==
    /\ halted = "sentinel"
    /\ buffer # <<>>
    /\ Payloads(buffer) # <<>>
    /\ pos < Len(wire)

(***************************************************************************)
(* C10  A `data:` payload that is not JSON yields no event and raises      *)
(* nothing; every JSON payload before and after it, up to the sentinel or  *)
(* the end of the stream, is yielded.  The stream of one malformed line    *)
(* between two valid ones yields exactly two events.                       *)
(***************************************************************************)
MalformedBetweenValid ==
    LineStr \o Terminator \o LineBad \o Terminator \o LineStr \o Terminator
        \o LineDone \o Terminator

C10_MalformedSkipped ==
    call = "stream" /\ Connected =>
        /\ (pc = "raised" => error \in ReadErrors)
        /\ (pc = "done" =>
                /\ error = NoException
                /\ yielded = EventsOf(text)
                /\ (wire = MalformedBetweenValid => Len(yielded) = 2))

C10_Witness ==
    /\ call = "stream"
    /\ pc = "done"
    /\ wire = MalformedBetweenValid
    /\ Len(seen) = 4
    /\ seen[2] = <<"{", "x", "}">>
    /\ Len(yielded) = 2

(***************************************************************************)
(* C11  At every moment of a connected stream the events yielded are the   *)
(* values of the JSON `data:` payloads that precede the first sentinel, in *)
(* the order of their lines, each once; the lines taken into account are   *)
(* those closed by a blank line while the stream is read, all of them once *)
(* it has ended.  Only `data:` lines are extracted, and the generator      *)
(* returns early only at a sentinel payload: without one the response is   *)
(* read to its end.                                                        *)
(***************************************************************************)
C11_EventsInOrder ==
    call = "stream" /\ Connected =>
        LET ps == Payloads(IF pc = "done" THEN text ELSE Terminated(text)) IN
        /\ yielded = ValuesOf(BeforeSentinel(ps))
        /\ IsPrefix(seen, ps)
        /\ (halted = "sentinel") = (\E i \in 1..Len(ps) : ps[i] = DONE)
        /\ (halted = "eof" => pos = Len(wire))

\* A comment line and a `data:` line in one event: the event is yielded.
C11_Witness ==
    /\ call = "stream"
    /\ pc = "done"
    /\ halted = "eof"
    /\ wire = LineComment \o <<LF>> \o LineObj \o Terminator
    /\ yielded = <<json_loads(<<"{", "}">>)>>

(***************************************************************************)
(* C12  When read_chunks ends with no sentinel met in the events closed by *)
(* a blank line, the events yielded are those events followed by the       *)
(* events of the lines left in the buffer; a last line that is a JSON      *)
(* `data:` line with no sentinel before it in the buffer is the last event *)
(* yielded, and nothing is raised.                                         *)
(***************************************************************************)
NoSentinelIn(t) == BeforeSentinel(Payloads(t)) = Payloads(t)

C12_Remainder ==
    (call = "stream" /\ pc = "done" /\ pos = Len(wire) /\ NoSentinelIn(Terminated(text))) =>
        LET ls == splitlines(buffer)
            last == ls[Len(ls)]
        IN  /\ yielded = EventsOf(Terminated(text)) \o EventsOf(buffer)
            /\ error = NoException
            /\ ((ls # <<>> /\ IsDataLine(last) /\ IsJSON(PayloadOf(last)) /\ NoSentinelIn(buffer))
                    => (yielded # <<>> /\ yielded[Len(yielded)] = json_loads(PayloadOf(last))))

\* An event closed by a blank line, then a `data:` line the stream ends on.
C12_Witness ==
    /\ call = "stream"
    /\ pc = "done"
    /\ halted = "eof"
    /\ wire = LineObj \o Terminator \o LineStr
    /\ buffer # <<>>
    /\ Len(yielded) = 2

(***************************************************************************)
(* C16  stream_json called with client = None issues no POST and raises    *)
(* nothing; it yields the one event {} and has then returned: no further   *)
(* step of the call exists.                                                *)
(***************************************************************************)
C16_NullClient ==
    call = "stream" /\ client = "None" =>
        /\ posts = 0
        /\ history = <<>>
        /\ error = NoException
        /\ pc \in {"attempt", "done"}
        /\ (pc = "attempt" => yielded = <<>>)
        /\ (pc = "done" => yielded = <<EmptyDict>> /\ ~ENABLED Next)

C16_Witness ==
    /\ call = "stream"
    /\ client = "None"
    /\ pc = "done"
    /\ Len(yielded) = 1
    /\ posts = 0

(***************************************************************************)
(* C17  Whenever either executor sleeps before a retry, the delay it       *)
(* sleeps does not exceed max_delay (every backoff_factor of DelayConfigs  *)
(* is >= 1).                                                               *)
(***************************************************************************)
C17_DelayCapped ==
    pc = "sleep" => cfg.backoff_factor >= 1 /\ delay <= cfg.max_delay * Tick

\* The cap is what decides: base_delay * backoff_factor ** attempt is above it.
C17_Witness ==
    /\ call = "stream"
    /\ pc = "sleep"
    /\ attempt = 1
    /\ cfg.max_delay > 0
    /\ cfg.base_delay * Pow(cfg.backoff_factor, attempt) > cfg.max_delay
    /\ delay = cfg.max_delay * Tick

(***************************************************************************)
(* C18  The delay slept after failed attempt i (counted from 0) is         *)
(* min(max_delay, base_delay * backoff_factor ** i) when jitter is off,    *)
(* and between 0.5 times and 1.0 times that value when jitter is on.       *)
(***************************************************************************)
C18_DelayValue ==
    pc = "sleep" =>
        LET i == Len(history) - 1
            nominal == Min(cfg.max_delay, cfg.base_delay * Pow(cfg.backoff_factor, i)) * Tick
        IN  IF cfg.jitter
            THEN nominal <= 2 * delay /\ delay <= nominal
            ELSE delay = nominal

\* A jittered delay strictly inside the interval, after the second failure.
C18_Witness ==
    /\ call = "unary"
    /\ pc = "sleep"
    /\ cfg.jitter
    /\ Len(history) = 2
    /\ delay > 0
    /\ delay < Min(cfg.max_delay, cfg.base_delay * Pow(cfg.backoff_factor, 1)) * Tick

(***************************************************************************)
(* C19  When a call has raised before any response of status < 400 and     *)
(* its last POST was answered with a status >= 400, the exception raised   *)
(* is an Exception whose message reads "HTTP <status>: <text>" with the    *)
(* status and the text of that last response.                              *)
(***************************************************************************)
C19_HttpFailureMessage ==
    (pc = "raised" /\ ~Connected /\ history # <<>> /\ IsStatusFailure(history[Len(history)])) =>
        LET last == history[Len(history)] IN
        /\ error.kind = "Exception"
        /\ error.msg = <<"HTTP", StatusStr(last.status), ":", last.body>>

\* A retried 500, then a 400: the message is the 400's.
C19_Witness ==
    /\ call = "unary"
    /\ pc = "raised"
    /\ posts = 2
    /\ history[1] = Resp(500, "Internal Server Error")
    /\ history[2] = Resp(400, "Bad Request")
    /\ error.msg = <<"HTTP", "400", ":", "Bad Request">>

(***************************************************************************)
(* C20  A cancellation that arrives during a POST, a backoff sleep or a    *)
(* read of the stream is raised to the caller as CancelledError: the call  *)
(* has raised (it is not sleeping before a retry), a cancelled POST is the *)
(* last POST of the call, and no step after the cancellation issues a      *)
(* POST.                                                                   *)
(***************************************************************************)
C20_Cancellation ==
    /\ [](/\ \A i \in 1..Len(history) :
                history[i].kind = "CancelledError" =>
                    i = Len(history) /\ pc = "raised" /\ error = CancelledError
          /\ (error.kind = "CancelledError" => pc = "raised"))
    /\ [][error.kind = "CancelledError" => posts' = posts]_vars

\* Cancelled in the sleep stream_json takes after a 500, of three attempts allowed.
C20_Witness ==
    /\ call = "stream"
    /\ cfg.max_attempts = 3
    /\ "Exception" \in cfg.retry_on_exceptions
    /\ pc = "raised"
    /\ error = CancelledError
    /\ posts = 1
    /\ history = <<Resp(500, "Internal Server Error")>>

(***************************************************************************)
(* C13  Every Response returned by acomplete has exactly one of            *)
(* main_response and stream_generator set, as its stream flag tells: a     *)
(* non-streaming call gives stream = False, a main_response and no         *)
(* generator; a streaming call gives stream = True, a generator and no     *)
(* main_response.                                                          *)
(***************************************************************************)
C13_ResponseShape ==
    response # NoResponse =>
        IF call = "stream"
        THEN /\ response.stream = "True"
             /\ response.stream_generator # "None"
             /\ response.main_response = "None"
        ELSE /\ response.stream = "False"
             /\ response.main_response # "None"
             /\ response.stream_generator = "None"

(***************************************************************************)
(* C14  The stream_generator never yields a chunk whose content is None;   *)
(* stream_content yields strings only, in the order of the events they     *)
(* come from, and their concatenation is the concatenation of the text     *)
(* deltas (those that are not null) of the events received so far.         *)
(***************************************************************************)
\* The text delta of an event; "None" when the event has none.
DeltaOf(ev) == IF ev.delta = "absent" THEN "None" ELSE ev.delta

DeltasOf(evs) == [i \in 1..Len(evs) |-> DeltaOf(evs[i])]

RECURSIVE Concat(_)
Concat(ss) == IF ss = <<>> THEN "" ELSE Head(ss) \o Concat(Tail(ss))

C14_TextDeltas ==
    call = "stream" /\ provider # "None" =>
        /\ \A i \in 1..Len(chunks) : chunks[i].content # "None"
        /\ \A i \in 1..Len(contents) : contents[i] # "None"
        /\ contents = SelectSeq(DeltasOf(fed), LAMBDA d : d \notin {"None", ""})
        /\ Concat(contents) = Concat(SelectSeq(DeltasOf(fed), LAMBDA d : d # "None"))

\* A null delta between two texts.
C14_Witness ==
    /\ call = "stream"
    /\ provider = "claude"
    /\ pc = "done"
    /\ DeltasOf(fed) = <<"Hel", "None", "lo">>
    /\ contents = <<"Hel", "lo">>

(***************************************************************************)
(* C15  Once the consumer has started a second iteration of the stream     *)
(* (the first one having ended at the end of the response, at the sentinel *)
(* or with an exception), no step issues a POST or yields a chunk or a     *)
(* string.                                                                 *)
(***************************************************************************)
C15_SinglePass ==
    [][pass >= 1 /\ pc \in {"done", "raised"} =>
            /\ posts' = posts
            /\ chunks' = chunks
            /\ contents' = contents
            /\ pc' = pc]_vars

\* Iterated a second time after the first iteration raised with chunks yielded.
C15_Witness ==
    /\ call = "stream"
    /\ pass = 2
    /\ pc = "raised"
    /\ chunks # <<>>
    /\ posts = 1

(***************************************************************************)
(* C21  Two calls interleaved at every await on one provider: each call    *)
(* has issued one POST per outcome of its own and at most max_attempts of  *)
(* them, its attempt counter counts its own failed attempts, the text it   *)
(* has decoded is the bytes of its own response read so far and the events *)
(* it has yielded are the events of that text; no step changes the shared  *)
(* RetryConfig.                                                            *)
(***************************************************************************)
C21_Isolation ==
    /\ [](\A i \in TaskIds :
            LET t == tasks[i] IN
            /\ t.posts = Len(t.history)
            /\ t.posts <= cfg.max_attempts
            /\ t.attempt = (IF t.pc = "attempt" THEN t.posts ELSE t.posts - 1)
            /\ \A j \in 1..(t.posts - 1) : IsFailure(t.history[j])
            /\ t.text = SubSeq(t.wire, 1, t.pos)
            /\ t.yielded = EventsOf(IF t.pc = "done" THEN t.text ELSE Terminated(t.text)))
    /\ [][cfg' = cfg]_vars

\* Both streams were read to the end after one retry each.
C21_Witness ==
    /\ \A i \in TaskIds : tasks[i].call = "stream" /\ tasks[i].pc = "done" /\ tasks[i].posts = 2
    /\ tasks[1].yielded = <<json_loads(<<"{", "}">>)>>
    /\ tasks[2].yielded = <<json_loads(<<"[", "]">>)>>

\* The name execute_tool resolves for the call under execution, "None" if none.
ResolvedName ==
    IF tool.tc.type = "function" /\ tool.tc.function.given THEN tool.tc.function.name
    ELSE IF tool.tc.type = "tool_use" THEN tool.tc.name
    ELSE "None"

ToolExecuted == tool.pc \in {"returned", "raised"}

(***************************************************************************)
(* C22  An executed tool call whose resolved name is not in the table has  *)
(* failed with the error that names the missing tool, has invoked no       *)
(* callable and has produced no result message.                            *)
(***************************************************************************)
C22_ToolNotFound ==
    (ToolExecuted /\ truthy(ResolvedName) /\ ResolvedName \notin tool.tools_map)
    => (/\ tool.pc = "raised"
        /\ tool.error = ToolNotFound(ResolvedName)
        /\ tool.invoked = <<>>
        /\ tool.output = NoOutput)

(***************************************************************************)
(* C23  An executed function tool call on a tool of the table whose        *)
(* arguments are a string that is not JSON, or neither a string nor a      *)
(* mapping, has invoked the tool with an empty mapping and has not failed. *)
(***************************************************************************)
C23_ArgumentsSubstituted ==
    LET args == tool.tc.function.arguments IN
    (/\ ToolExecuted
     /\ tool.tc.type = "function" /\ tool.tc.function.given
     /\ tool.tc.function.name \in tool.tools_map
     /\ \/ args.type = "str" /\ ~IsJSON(args.v)
        \/ args.type \notin {"str", "dict"})
    => (/\ tool.pc = "returned"
        /\ tool.invoked = <<[name |-> tool.tc.function.name, how |-> "keywords",
                             args |-> PyValue("dict", EmptyDict)]>>)

\* A Responses function_call item was normalised and its ToolCall executed
\* to a result record.
ItemExecuted ==
    tool.provider = "openairesponses" /\ tool.source = "item" /\ tool.pc = "returned"

\* C24 as stated: the record of a normalised and executed function_call item
\* carries the call id of the item, for every item id and call id.
C24_CallIdOfItem ==
    ItemExecuted =>
        (tool.output.shape = "function_call_output" /\ tool.output.call_id = tool.item.call_id)

(***************************************************************************)
(* C24  The record of a normalised and executed function_call item is a    *)
(* function_call_output whose call_id is the call id of the item when that *)
(* is not empty, whatever the item id, and the item id when the call id is *)
(* empty.                                                                  *)
(***************************************************************************)
C24_CallId ==
    ItemExecuted =>
        (/\ tool.output.shape = "function_call_output"
         /\ tool.output.call_id =
              (IF tool.item.call_id # "" THEN tool.item.call_id ELSE tool.item.id))

\* An item whose ids differ was executed to a record.
C24_Witness ==
    /\ ItemExecuted
    /\ tool.item.id = "fc_1"
    /\ tool.item.call_id = "call_1"
    /\ tool.output.call_id = "call_1"

HasToolCalls(main_resp) == main_resp.tool_calls # <<>>

LoopEnded == loop.pc \in {"returned", "raised"}

\* An exception of _single_complete or of a tool execution left the loop.
LoopAborted == loop.pc = "raised" /\ loop.error.kind # "RuntimeError"

\* What the loop can still do: two steps for each request it may still send.
LoopVariant ==
    2 * (loop.max_tool_iterations + 1 - Len(loop.requests))
    + (IF loop.pc = "tools" THEN 1 ELSE 0)

(***************************************************************************)
(* C25  The tool loop with max_tool_iterations = M has sent at most M+1    *)
(* completion requests and every step brings it nearer to its end; when    *)
(* it has ended with every reply requesting tool calls, and no exception   *)
(* of a request or of a tool left it, it has sent exactly M+1 requests and *)
(* raised RuntimeError 'Exceeded maximum tool iterations (M)', which it    *)
(* raises in no other case.                                                *)
(***************************************************************************)
C25_Terminates ==
    /\ [](LET M == loop.max_tool_iterations IN
           /\ Len(loop.requests) <= M + 1
           /\ LoopVariant >= 0
           /\ (/\ LoopEnded
               /\ ~LoopAborted
               /\ \A j \in 1..Len(loop.responses) : HasToolCalls(loop.responses[j]))
              => (/\ loop.pc = "raised"
                  /\ loop.error.kind = "RuntimeError"
                  /\ loop.error.msg = Exceeded(M).msg
                  /\ Len(loop.requests) = M + 1)
           /\ (loop.error.kind = "RuntimeError")
              => (/\ Len(loop.requests) = M + 1
                  /\ \A j \in 1..Len(loop.responses) : HasToolCalls(loop.responses[j])))
    /\ [][LoopVariant' < LoopVariant]_loop

\* Three replies asked for tools and the loop of two iterations gave up.
C25_Witness ==
    /\ loop.pc = "raised"
    /\ loop.error.kind = "RuntimeError"
    /\ loop.max_tool_iterations = 2
    /\ Len(loop.requests) = 3
    /\ Len(loop.executed) >= 3

\* How often the tool call id of the j-th reply was run.
TimesExecuted(j, id) ==
    Cardinality({n \in 1..Len(loop.executed) : loop.executed[n] = <<j, id>>})

\* A call _execute_tools runs: one it dispatches that carries a name.
Runnable(tc) ==
    dispatched(tc) /\ truthy(IF tc.type = "function" /\ tc.function.given
                             THEN tc.function.name ELSE tc.name)

\* The result messages of the tool calls tcs, one per call, in their order.
ResultsOf(tcs) == [i \in 1..Len(tcs) |-> ToolMessage(tcs[i].id)]

C27_SchemaRejected ==
    (provider = "claude" /\ response_schema = "schema")
    => (/\ posts = 0
        /\ response = NoResponse
        /\ pc # "call" => (pc = "raised" /\ error = Unsupported))

\* A streaming Claude call with a schema has raised.
C27_Witness ==
    /\ provider = "claude"
    /\ call = "stream"
    /\ response_schema = "schema"
    /\ pc = "raised"
    /\ error = Unsupported

(***************************************************************************)
(* C28  A non-streaming ClaudeProvider.acomplete call made without a       *)
(* response_schema has not raised the unsupported-feature error; once its  *)
(* POST was answered with 200 it has issued that one POST, and the         *)
(* Response returned has stream = False and a main_response.               *)
(***************************************************************************)
C28_NoSchemaCompletes ==
    (provider = "claude" /\ call = "unary" /\ response_schema = "None")
    => (/\ error # Unsupported
        /\ (pc # "call" /\ posts = 0) => pc = "attempt"
        /\ (response # NoResponse)
           => (/\ response.stream = "False"
               /\ response.main_response # "None"
               /\ IsSuccess(history[Len(history)])))

\* The patterns of the claim: the exact topic, a prefix followed by `*`, `*`.
PatternMatches(topic, pattern) ==
    \/ pattern = topic
    \/ pattern = <<"*">>
    \/ \E n \in 0..Len(topic) : pattern = SubSeq(topic, 1, n) \o <<"*">>

\* The events published while subscriber s was registered under a pattern
\* matching their topic, in publish order.
RECURSIVE MatchingEvents(_, _)
MatchingEvents(s, log) ==
    IF log = <<>> THEN <<>>
    ELSE (IF s \in Head(log).registered /\ PatternMatches(Head(log).topic, bus.subs[s].pattern)
          THEN <<Head(log).event>> ELSE <<>>)
         \o MatchingEvents(s, Tail(log))

(***************************************************************************)
(* C29  What a subscriber has received is, in publish order and each       *)
(* event once, a prefix of the events published while it was registered    *)
(* under a pattern matching their topic; while it is registered the rest   *)
(* of them waits in its queue, and the one suspended in get() with a       *)
(* queue that is not empty can be resumed.  A subscriber whose pattern     *)
(* matches no topic published has received nothing.                        *)
(***************************************************************************)
C29_Delivery ==
    \A s \in Subscribers :
        LET sub == bus.subs[s]
            expected == MatchingEvents(s, bus.published)
        IN  /\ IsPrefix(sub.received, expected)
            /\ s \in bus.queues => sub.received \o sub.queue = expected
            /\ (sub.pc = "waiting" /\ sub.queue # <<>>) => ENABLED SubscribeWake(s)

\* Both subscribers, on different patterns, received both events in order,
\* the second of a topic only the prefix pattern and `*` match.
C29_Witness ==
    /\ bus.subs[1].pattern = <<"tools", ".", "test", ".", "*">>
    /\ bus.subs[2].pattern = <<"*">>
    /\ Len(bus.published) = 2
    /\ bus.published[1].topic = TopicStart
    /\ bus.published[2].topic = TopicComplete
    /\ bus.subs[1].received = <<1, 2>>
    /\ bus.subs[2].received = <<1, 2>>

(***************************************************************************)
(* C30  Once the backend is closed it stays closed, a publish raises       *)
(* RuntimeError 'Backend is closed' and enqueues nothing, an iteration of  *)
(* a subscription raises that error, and no subscriber receives an event.  *)
(***************************************************************************)
C30_Closed ==
    [][bus.closed =>
          /\ bus'.closed
          /\ \A s \in Subscribers :
                /\ bus'.subs[s].received = bus.subs[s].received
                /\ IsPrefix(bus'.subs[s].queue, bus.subs[s].queue)
                /\ bus'.subs[s].pc # bus.subs[s].pc => bus'.subs[s].error = BackendClosed
          /\ bus'.published # bus.published => bus'.publish_error = BackendClosed]_bus

\* The positions of the record of the batch where call n did `what`.
Where(n, what) ==
    {i \in 1..Len(tool.trace) : tool.trace[i].n = n /\ tool.trace[i].what = what}

Parsed(p) == parsing.provider = p /\ parsing.pc = "parsed"

(***************************************************************************)
(* C32  The OpenAI Chat unary normalizer maps a reply whose message        *)
(* content is missing or None to a canonical message whose content is the  *)
(* empty string, not null, and a present string content to that string.    *)
(***************************************************************************)
C32_ChatContent ==
    Parsed("openai") =>
        LET m == parsing.message
        IN  parsing.parsed.content =
                IF ~m.has_content \/ m.content = "None" THEN "" ELSE m.content

(***************************************************************************)
(* C33  The OpenAI Responses unary normalizer gives a canonical message    *)
(* whose content is null, not the empty string, whenever the extracted     *)
(* text is empty: no text entries in `output`, an empty `output_text`, or  *)
(* an empty chat-shaped content.                                           *)
(***************************************************************************)
C33_ResponsesContent ==
    (Parsed("openairesponses") /\ responses_text(parsing.original) = "") =>
        parsing.parsed.content = "None"

\* The blocks of a Claude reply that are of type t.
BlocksOfType(t) == SelectSeq(parsing.blocks, LAMBDA b : b.type = t)

\* The blocks whose text lands in the canonical message: those of type text
\* and, when lenient, those of another type than tool_use with a "text" key.
TextBlocks(lenient) ==
    SelectSeq(parsing.blocks,
              LAMBDA b : \/ b.type = "text"
                         \/ lenient /\ b.type # "tool_use" /\ b.has_text)

\* The canonical message of a Claude reply whose text comes from `texts`.
ClaudeMessage(texts) ==
    LET joined == join([i \in 1..Len(texts) |-> texts[i].text])
        uses == BlocksOfType("tool_use")
    IN  /\ parsing.parsed.content = (IF joined = "" THEN "None" ELSE joined)
        /\ Len(parsing.parsed.tool_calls) = Len(uses)
        /\ \A i \in 1..Len(uses) :
              /\ parsing.parsed.tool_calls[i].type = "tool_use"
              /\ parsing.parsed.tool_calls[i].id = uses[i].id
              /\ parsing.parsed.tool_calls[i].name = "get_weather"
              /\ parsing.parsed.tool_calls[i].input = ArgsInput(PyValue("dict", EmptyDict))
        /\ parsing.parsed.tool_calls_null = (uses = <<>>)

\* C34 as stated: only the blocks of type text contribute text.
C34_TypedBlocksOnly == Parsed("claude") => ClaudeMessage(TextBlocks(FALSE))

(***************************************************************************)
(* C34  The Claude unary normalizer sets the text to the in-order          *)
(* concatenation of the content blocks of type "text" and of the blocks    *)
(* of a type other than "text" and "tool_use" that carry a "text" key      *)
(* (null when that is empty), and the tool calls to one ToolCall of type   *)
(* "tool_use" with the block's id, name and input per block of type        *)
(* "tool_use", in block order (null when there is none).                   *)
(***************************************************************************)
C34_ClaudeBlocks == Parsed("claude") => ClaudeMessage(TextBlocks(TRUE))

\* A text block followed by a tool_use block has been normalized.
C34_Witness ==
    /\ Parsed("claude")
    /\ Len(parsing.blocks) = 2
    /\ parsing.blocks[1].type = "text"
    /\ parsing.blocks[2].type = "tool_use"
    /\ parsing.parsed.content = "Hel"
    /\ Len(parsing.parsed.tool_calls) = 1

\* The exception the k-th attempt of the wrapper ended with.
FailureOf(k) == post_json_core_raises(history[k])

\* The k-th attempt failed with an exception the configuration retries.
FailedRetryable(k) ==
    LET e == FailureOf(k)
    IN  /\ e # NoException
        /\ \/ isinstance(e.kind, cfg.retry_on_exceptions)
           \/ \E s \in cfg.retry_on_status : e.msg = HttpError(s, history[k].body).msg
           \/ e.msg = <<"upstream", "said", "HTTP", "500">> /\ 500 \in cfg.retry_on_status

(***************************************************************************)
(* C35  In every run of the retry wrapper the number of backoff sleeps     *)
(* equals the number of attempts minus one once the run has ended (and     *)
(* the number of attempts while it sleeps or is about to attempt again):   *)
(* the i-th sleep follows the i-th attempt, which failed retryably and was *)
(* not the last allowed one; none follows a success, a non-retryable       *)
(* failure or the last allowed attempt.  The failure raised is that of the *)
(* last attempt made.  on_retry, when given, is called once before each    *)
(* sleep with the 1-based index of the attempt that just failed and with   *)
(* its failure; when not given, nothing is called.                         *)
(***************************************************************************)
C35_SleepsBetweenAttempts ==
    LET sleeps == retries.sleeps
        calls == retries.calls
    IN  /\ pc \in {"done", "raised"} => Len(sleeps) = posts - 1
        /\ pc \in {"attempt", "sleep"} => Len(sleeps) = posts
        /\ \A i \in 1..Len(sleeps) :
              /\ sleeps[i].after = i
              /\ i < cfg.max_attempts
              /\ FailedRetryable(i)
        /\ pc = "raised" => error = FailureOf(posts)
        /\ IF retries.on_retry
           THEN /\ Len(calls) = Len(sleeps)
                /\ \A i \in 1..Len(calls) :
                      /\ calls[i].attempt = i
                      /\ calls[i].e = FailureOf(i)
                      /\ sleeps[i].announced = i
           ELSE calls = <<>>

\* Three attempts, each failed retryably, ended the run after two sleeps, each
\* announced to on_retry.
C35_Witness ==
    /\ call = "unary"
    /\ pc = "raised"
    /\ posts = 3
    /\ Len(retries.sleeps) = 2
    /\ retries.on_retry
    /\ Len(retries.calls) = 2
    /\ retries.calls[2].attempt = 2

\* The failure of a connection attempt, as opposed to one _single_complete
\* raises itself.
ConnectionFailure == pc = "raised" /\ error # Unsupported

(***************************************************************************)
(* C36  A streaming complete call returns its Response without issuing a   *)
(* POST: as long as the consumer has started no iteration of the stream,   *)
(* no POST has been issued, no backoff sleep has begun or is under way,    *)
(* and no connection failure has been raised; once a POST has been issued  *)
(* the Response had been returned and an iteration started.                *)
(***************************************************************************)
C36_LazyStream ==
    (call = "stream" /\ provider # "None") =>
        /\ pass = 0 => (/\ posts = 0
                        /\ retries.sleeps = <<>>
                        /\ pc # "sleep"
                        /\ ~ConnectionFailure)
        /\ posts > 0 => (pass >= 1 /\ response = stream_response(provider))

\* The iteration of a returned stream raised the failure of the last
\* connection attempt, after the sleeps between the attempts.
C36_Witness ==
    /\ call = "stream"
    /\ provider = "openai"
    /\ response = stream_response("openai")
    /\ pass = 1
    /\ pc = "raised"
    /\ posts = MaxAttempts
    /\ Len(retries.sleeps) = MaxAttempts - 1
    /\ error = HttpError(500, "Internal Server Error")

\* A message given to acomplete has a role that is not allowed.
InvalidRoleGiven ==
    \E i \in 1..Len(request.messages) : request.messages[i].role \notin ALLOWED_ROLES

(***************************************************************************)
(* C37  On every provider, a complete call given a message whose role is   *)
(* not one of system, user, assistant, tool has issued no POST and, once   *)
(* acomplete has looked at its messages, has been rejected with the        *)
(* ValueError of an invalid role; and no request that was sent carries a   *)
(* message with such a role.                                               *)
(***************************************************************************)
C37_InvalidRoleRejected ==
    /\ (provider # "None" /\ InvalidRoleGiven) =>
            /\ posts = 0
            /\ pc # "acomplete" => (pc = "raised" /\ error.kind = "ValueError")
    /\ posts > 0 => \A i \in 1..Len(request.payload) : request.payload[i] \in ALLOWED_ROLES

\* Where a connection attempt left a call: connected (post_json returned,
\* stream_json left its loop), sleeping before a retry, or failed.
Decision(t) ==
    CASE t.pc \in {"done", "reading"} -> "success"
      [] t.pc = "sleep" -> "retry"
      [] t.pc = "raised" -> "failure"
      [] OTHER -> "attempt"

(***************************************************************************)
(* C38  Under one RetryConfig and the same sequence of connection-attempt  *)
(* outcomes, post_json and the connection phase of stream_json have taken  *)
(* the same decisions: the same number of POSTs, the same decision after   *)
(* the last of them (success, retry or failure), the same backoff delay    *)
(* when they retry, and the same failure when they fail.                   *)
(***************************************************************************)
C38_SameDecisions ==
    LET u == tasks[1]
        g == tasks[2]
    IN  /\ u.history = g.history
        /\ u.posts = g.posts
        /\ Decision(u) = Decision(g)
        /\ Decision(u) = "retry" => backoff_delays(cfg, u.attempt) = backoff_delays(cfg, g.attempt)
        /\ Decision(u) = "failure" => u.error = g.error

\* Subscriber s is suspended in queue.get() of a closed backend.
WaitingOnClosed(s) == bus.closed /\ bus.subs[s].pc = "waiting"

(***************************************************************************)
(* C39  After close(), every subscriber iteration that is suspended        *)
(* waiting for its next event eventually terminates: no subscriber stays   *)
(* suspended forever on a closed backend.                                  *)
(***************************************************************************)
C39_NoWaitForever ==
    \A s \in Subscribers : WaitingOnClosed(s) ~> (bus.subs[s].pc # "waiting")

\* A failure the default policy retries: a status of the default list, or an
\* exception of a default transient class.
DefaultRetryable(o) ==
    \/ o.type = "response" /\ o.status \in {429, 500, 502, 503, 504}
    \/ o.type = "raise" /\ o.kind \in {"TimeoutError", "ConnectionError"}

(***************************************************************************)
(* C40  With retry_config = None a unary or streaming call whose every     *)
(* attempt fails with a default-retryable status (429, 500, 502, 503, 504) *)
(* or a default transient exception goes on until it has issued exactly 3  *)
(* POSTs and then raises the failure of the third: it never raises         *)
(* earlier and never issues a fourth.                                      *)
(***************************************************************************)
C40_DefaultPolicy ==
    (\A i \in 1..Len(history) : DefaultRetryable(history[i])) =>
        /\ posts <= 3
        /\ posts < 3 => pc \in {"attempt", "sleep"}
        /\ posts = 3 => (pc = "raised" /\ error = post_json_core_raises(history[3]))

\* Three attempts answered 429, 503 and a connection error, then the failure.
C40_Witness ==
    /\ posts = 3
    /\ pc = "raised"
    /\ history[1] = Resp(429, "error")
    /\ history[2] = Resp(503, "error")
    /\ history[3] = Raise("ConnectionError", <<"Connection", "failed">>)
    /\ error.kind = "ConnectionError"
====
